---- MODULE Spec2Model ----
(***************************************************************************)
(* A model of cw.api.core.events: the EventBus dispatch engine             *)
(* (src/src/eventBus.ts), its invocation context                           *)
(* (src/src/eventInvocationContext.ts) and the built-in lifecycle          *)
(* descriptors (src/src/coreEvents.ts).                                    *)
(*                                                                         *)
(* JavaScript runs one call stack to completion; `stack` is that call      *)
(* stack (one frame per running trigger call), and a suspended async       *)
(* trigger is a frame that left the stack at an await and is resumed by    *)
(* the event loop when the stack is empty.                                 *)
(***************************************************************************)
EXTENDS Integers, Sequences, FiniteSets, TLC

\* ---------------------------------------------------------------- bounds
\* Subscriptions the driver holds at one time, over all descriptors.
MaxSubs == 2
\* Depth at which the call stack is cut (the engine has no limit of its own).
MaxDepth == 4
\* Entries kept of what one invocation observed; later ones are not recorded.
MaxObserved == 12
\* Trigger calls of the caller in progress at the same time.
MaxTriggers == 2

\* ---------------------------------------------------------------- values
\* JavaScript `undefined` in a result slot, and a promise object in one.
UndefinedResult == -1
PromiseObject == -2
\* JavaScript `undefined` in an error or reason slot.
Undefined == "undefined"
\* Results are small naturals; handlers that compute on the result wrap here.
ResultMod == 16

STOPPED_BY_ERROR == "Subscriber threw an error"
\* A plain Error where runSync raises a TypeError.
PlainErrorValue == "Error"
TypeErrorValue == "TypeError"

\* JavaScript truthiness of a captured error value.
Truthy(e) == e # Undefined

\* ---------------------------------------------------------------- descriptors
\* An EventDefinition object. `id` is the object's identity (two objects with the
\* same fields are different objects).
Definition(id, name, mode, internal, hasFactory, factoryValue) ==
    [id |-> id, name |-> name, mode |-> mode, internal |-> internal,
     hasFactory |-> hasFactory, factoryValue |-> factoryValue]

CoreRoles == {"beforeTrigger", "afterTrigger", "subscriberError",
              "subscriberRegistered", "subscriberRemoved"}

CoreName(role) == "cw.events.core." \o role

CORE_EVENTS == [role \in CoreRoles |->
    Definition("CORE_EVENTS." \o role, CoreName(role), "sync", TRUE, FALSE, UndefinedResult)]

CoreNames == {CoreName(role) : role \in CoreRoles}

\* The descriptors of the test suite, and their async / internal siblings.
SyncEvent == Definition("SyncEvent", "tests.syncEvent", "sync", FALSE, FALSE, UndefinedResult)
AsyncEvent == Definition("AsyncEvent", "tests.asyncEvent", "async", FALSE, FALSE, UndefinedResult)
EventWithFactory == Definition("EventWithFactory", "tests.withFactory", "sync", FALSE, TRUE, 5)
internalEvent == Definition("internalEvent", "tests.internal", "sync", TRUE, FALSE, UndefinedResult)

\* A caller's descriptor that takes the name of a built-in lifecycle descriptor
\* without the internal flag.
ShadowBeforeTrigger ==
    Definition("ShadowBeforeTrigger", CoreName("beforeTrigger"), "sync", FALSE, FALSE, UndefinedResult)

UserDefinitions == {SyncEvent, AsyncEvent, EventWithFactory, internalEvent}

\* Another descriptor object with the name and fields of d, and one with the name
\* of d and the other mode (the `duplicate` and `conflicting` of the test suite).
duplicate(d) == [d EXCEPT !.id = d.id \o ".duplicate"]
conflicting(d) ==
    [d EXCEPT !.id = d.id \o ".conflicting",
              !.mode = IF d.mode = "sync" THEN "async" ELSE "sync"]

\* A descriptor object with the name of d and every other field different.
unlike(d) ==
    [d EXCEPT !.id = d.id \o ".unlike",
              !.mode = IF d.mode = "sync" THEN "async" ELSE "sync",
              !.internal = ~d.internal,
              !.hasFactory = ~d.hasFactory,
              !.factoryValue = 9]

\* ---------------------------------------------------------------- invocation context
\* A context that does not take the snapshot of the subscriber count.
contextWithoutSnapshot(definition, initialResult, hasSubscribers) ==
    [event |-> definition.id,
     result |-> initialResult,
     stopped |-> FALSE,
     stoppedReason |-> Undefined,
     stoppedForError |-> FALSE,
     error |-> Undefined,
     hasSubscribers |-> TRUE]

\* new EventInvocationContext(definition, payload, initialResult, metadata, hasSubscribers)
EventInvocationContext(definition, initialResult, hasSubscribers) ==
    [event |-> definition.id,
     result |-> initialResult,
     stopped |-> FALSE,
     stoppedReason |-> Undefined,
     stoppedForError |-> FALSE,
     error |-> Undefined,
     hasSubscribers |-> hasSubscribers]

setResult(ctx, value) == [ctx EXCEPT !.result = value]

\* A stop that records the reason and leaves the flag alone.
stopReasonOnly(ctx, reason) == [ctx EXCEPT !.stoppedReason = reason]

stop(ctx, reason) == [ctx EXCEPT !.stopped = TRUE, !.stoppedReason = reason]

\* A stopForError that records the error and does not stop.
stopForErrorWithoutStop(ctx, error, reason) ==
    [ctx EXCEPT !.stoppedForError = TRUE, !.error = error]

\* A stopForError that stops without recording the error.
stopWithoutError(ctx, error, reason) == [ctx EXCEPT !.stopped = TRUE, !.stoppedReason = reason]

stopForError(ctx, error, reason) ==
    stop([ctx EXCEPT !.stoppedForError = TRUE, !.error = error], reason)

\* ---------------------------------------------------------------- subscribers
\* What a subscriber function does with the context before it returns (`ops`),
\* how it returns (`ret`), and, for an async function, what it does between its
\* await and the settling of its promise (`late`).
Op(op, value, error, reason) == [op |-> op, value |-> value, error |-> error, reason |-> reason]
SetResultOp(v) == Op("setResult", v, Undefined, Undefined)
IncOp == Op("inc", UndefinedResult, Undefined, Undefined)
StopOp(reason) == Op("stop", UndefinedResult, Undefined, reason)
StopForErrorOp(error, reason) == Op("stopForError", UndefinedResult, error, reason)

\* The completion of a call of a subscriber function: a returned value, a raised
\* value, or a returned promise that later fulfils with a value or rejects.
Completion(kind, value, error, rejects) ==
    [kind |-> kind, value |-> value, error |-> error, rejects |-> rejects]
Returns(v) == Completion("value", v, Undefined, FALSE)
Throws(e) == Completion("throw", UndefinedResult, e, FALSE)
Fulfils(v) == Completion("promise", v, Undefined, FALSE)
Rejects(e) == Completion("promise", UndefinedResult, e, TRUE)

Behaviour(ops, ret, late) == [ops |-> ops, ret |-> ret, late |-> late]

HandlerIds == {"hNoop", "hInc", "hRet", "hStop", "hThrow", "hThrowUndefined",
               "hStopForError", "hAsync", "hReject"}

Handler(h) ==
    CASE h = "hNoop" -> Behaviour(<<>>, Returns(UndefinedResult), <<>>)
      [] h = "hInc" -> Behaviour(<<IncOp>>, Returns(UndefinedResult), <<>>)
      [] h = "hRet" -> Behaviour(<<>>, Returns(0), <<>>)
      [] h = "hStop" -> Behaviour(<<StopOp("done")>>, Returns(UndefinedResult), <<>>)
      [] h = "hThrow" -> Behaviour(<<>>, Throws("boom"), <<>>)
      [] h = "hThrowUndefined" -> Behaviour(<<>>, Throws(Undefined), <<>>)
      [] h = "hStopForError" ->
            Behaviour(<<StopForErrorOp("manual", "gave up")>>, Returns(UndefinedResult), <<>>)
      [] h = "hAsync" -> Behaviour(<<>>, Fulfils(UndefinedResult), <<IncOp>>)
      [] h = "hReject" -> Behaviour(<<>>, Rejects("async-fail"), <<>>)
      [] h \in {"hStopThenThrow"} -> Behaviour(<<>>, Throws("boom"), <<>>)
      [] h = "hListenerThrow" -> Behaviour(<<>>, Throws("listener-boom"), <<>>)
      [] h = "hStopThenReject" -> Behaviour(<<>>, Rejects("async-fail"), <<StopOp("late")>>)
      [] OTHER -> Behaviour(<<>>, Returns(UndefinedResult), <<>>)

\* A call a subscriber makes on the engine, for the caller's descriptor.
Call(op, h) == [op |-> op, handler |-> h]

\* Subscribers whose body is several statements, run one at a time before the
\* function returns: calls on the context, and calls on the engine.
ContextHandlers == {"hStopTwice", "hStopThenStopNoReason", "hStopThenThrow",
                    "hStopThenStopForError", "hStopForErrorThenStop",
                    "hStopForErrorUndefined", "hSetAfterStop", "hStopThenReject"}
ReentrantHandlers == {"hResubscribe", "hSubscribeNoop", "hUnsubscribeNoop", "hUnsubscribeSelf"}

Body(h) ==
    CASE h = "hStopTwice" -> <<StopOp("first"), StopOp("second")>>
      [] h = "hStopThenStopNoReason" -> <<StopOp("first"), StopOp(Undefined)>>
      [] h = "hStopThenThrow" -> <<StopOp("first")>>
      [] h = "hStopThenStopForError" -> <<StopOp("first"), StopForErrorOp("manual", "gave up")>>
      [] h = "hStopForErrorThenStop" -> <<StopForErrorOp("manual", "gave up"), StopOp("later")>>
      [] h = "hStopForErrorUndefined" -> <<StopForErrorOp(Undefined, Undefined)>>
      [] h = "hSetAfterStop" -> <<StopOp("first"), SetResultOp(3), IncOp>>
      [] h = "hStopThenReject" -> <<StopOp("first")>>
      [] h = "hResubscribe" -> <<Call("unsubscribe", "hResubscribe"), Call("subscribe", "hResubscribe")>>
      [] h = "hSubscribeNoop" -> <<Call("subscribe", "hNoop")>>
      [] h = "hUnsubscribeNoop" -> <<Call("unsubscribe", "hNoop")>>
      [] h = "hUnsubscribeSelf" -> <<Call("unsubscribe", "hUnsubscribeSelf")>>
      [] h = "hRemoveEvent" -> <<Call("removeEvent", "")>>
      [] OTHER -> <<>>

\* One statement of a subscriber acting on its context.
ApplyOp(ctx, o) ==
    CASE o.op = "setResult" -> setResult(ctx, o.value)
      [] o.op = "inc" ->
            [ctx EXCEPT !.result = ((IF ctx.result < 0 THEN 0 ELSE ctx.result) + 1) % ResultMod]
      [] o.op = "stop" -> stop(ctx, o.reason)
      [] o.op = "stopForError" -> stopForError(ctx, o.error, o.reason)

RECURSIVE ApplyOps(_, _)
ApplyOps(ctx, ops) ==
    IF ops = <<>> THEN ctx ELSE ApplyOps(ApplyOp(ctx, Head(ops)), Tail(ops))

\* ---------------------------------------------------------------- trigger options
Options(given, hasInitialResult, initialResult, throwOnError) ==
    [given |-> given, hasInitialResult |-> hasInitialResult,
     initialResult |-> initialResult, throwOnError |-> throwOnError]

NoOptions == Options(FALSE, FALSE, UndefinedResult, FALSE)
\* A triggerInternal that asks for the captured error to be re-raised.
InternalOptionsThrowing == Options(TRUE, FALSE, UndefinedResult, TRUE)
\* triggerInternal passes { throwOnError: false }.
InternalOptions == Options(TRUE, FALSE, UndefinedResult, FALSE)

OptionInputs ==
    {NoOptions,
     Options(TRUE, FALSE, UndefinedResult, TRUE),
     Options(TRUE, TRUE, UndefinedResult, FALSE),
     Options(TRUE, TRUE, 7, TRUE)}

\* ---------------------------------------------------------------- state
VARIABLES
    target,     \* the caller's descriptor this behaviour works with
    events,     \* EventBus.events: name -> the entry's generation, 0 when absent
    heap,       \* the EventRecord objects ever created for a name, oldest first
    stack,      \* the call stack: ids of the running trigger invocations
    invs,       \* the trigger invocations: frame, context and what they observed
    promises,   \* promises returned by subscribers and not yet consumed
    ret,        \* what the last public API call returned or raised
    handle,     \* the subscription handle the caller kept, if any
    bound       \* per name, the mode it had when it was first registered

vars == <<target, events, heap, stack, invs, promises, ret, handle, bound>>

AllNames == {d.name : d \in UserDefinitions} \cup CoreNames

\* The registry part of a state, as a value the operations below transform.
Bus(ev, hp) == [events |-> ev, heap |-> hp]

hasEvent(b, name) == b.events[name] # 0

\* tryGetRecord: the entry stored under a name (a reference <<name, generation>>).
tryGetRecord(b, name) == <<name, b.events[name]>>
RecordAt(hp, ref) == hp[ref[1]][ref[2]]

EventRecord(definition) == [definition |-> definition, subscribers |-> <<>>]

\* The messages of the errors registerEvent (line 47) and removeEvent (line 136) raise.
AlreadyRegistered(name, mode) ==
    "Event \"" \o name \o "\" already registered with mode \"" \o mode \o "\"."
CannotBeRemovedUnnamed(name) == "Core event cannot be removed."
CannotBeRemoved(name) == "Core event \"" \o name \o "\" cannot be removed."

\* A registerEvent that lets a descriptor of another mode take over the entry.
registerEventOverwriting(b, definition) ==
    IF hasEvent(b, definition.name)
    THEN LET ref == tryGetRecord(b, definition.name)
             existing == RecordAt(b.heap, ref).definition
         IN IF existing.id # definition.id /\ existing.mode # definition.mode
            THEN [bus |-> Bus(b.events,
                              [b.heap EXCEPT ![ref[1]][ref[2]].definition = definition]),
                  value |-> definition.id, threw |-> "none"]
            ELSE [bus |-> b, value |-> existing.id, threw |-> "none"]
    ELSE [bus |-> Bus([b.events EXCEPT ![definition.name] = Len(b.heap[definition.name]) + 1],
                      [b.heap EXCEPT ![definition.name] = Append(@, EventRecord(definition))]),
          value |-> definition.id, threw |-> "none"]

\* A registerEvent that makes the latest descriptor object of a mode the stored one.
registerEventLatest(b, definition) ==
    IF hasEvent(b, definition.name)
    THEN LET ref == tryGetRecord(b, definition.name)
             existing == RecordAt(b.heap, ref).definition
         IN IF existing.id # definition.id /\ existing.mode # definition.mode
            THEN [bus |-> b, value |-> Undefined,
                  threw |-> AlreadyRegistered(definition.name, existing.mode)]
            ELSE [bus |-> Bus(b.events,
                              [b.heap EXCEPT ![ref[1]][ref[2]].definition = definition]),
                  value |-> definition.id, threw |-> "none"]
    ELSE [bus |-> Bus([b.events EXCEPT ![definition.name] = Len(b.heap[definition.name]) + 1],
                      [b.heap EXCEPT ![definition.name] = Append(@, EventRecord(definition))]),
          value |-> definition.id, threw |-> "none"]

\* registerEvent(definition): the registry after the call, what it returned
\* (a descriptor id) and whether it raised.
registerEvent(b, definition) ==
    IF hasEvent(b, definition.name)
    THEN LET existing == RecordAt(b.heap, tryGetRecord(b, definition.name)).definition IN
         IF existing.id # definition.id /\ existing.mode # definition.mode
         THEN [bus |-> b, value |-> Undefined,
               threw |-> AlreadyRegistered(definition.name, existing.mode)]
         ELSE [bus |-> b, value |-> existing.id, threw |-> "none"]
    ELSE [bus |-> Bus([b.events EXCEPT ![definition.name] = Len(b.heap[definition.name]) + 1],
                      [b.heap EXCEPT ![definition.name] = Append(@, EventRecord(definition))]),
          value |-> definition.id, threw |-> "none"]

ensureRecord(b, definition) ==
    IF hasEvent(b, definition.name) THEN b ELSE registerEvent(b, definition).bus

RECURSIVE registerAll(_, _)
registerAll(b, roles) ==
    IF roles = {} THEN b
    ELSE LET r == CHOOSE x \in roles : TRUE IN
         registerAll(registerEvent(b, CORE_EVENTS[r]).bus, roles \ {r})

registerCoreEvents(b) == registerAll(b, CoreRoles)

\* The constructor: new EventBus({ includeCoreEvents }).
EmptyBus == Bus([n \in AllNames |-> 0], [n \in AllNames |-> <<>>])
\* A constructor that registers the lifecycle descriptors whatever the option.
NewEventBusWithCore(includeCoreEvents) == registerCoreEvents(EmptyBus)
NewEventBus(includeCoreEvents) ==
    IF includeCoreEvents THEN registerCoreEvents(EmptyBus) ELSE EmptyBus

\* An initial result resolved on the option's value instead of its presence.
resolveInitialResultByValue(definition, options) ==
    IF options.given /\ options.hasInitialResult /\ options.initialResult # UndefinedResult
    THEN [value |-> options.initialResult, factoryCalls |-> 0]
    ELSE IF definition.hasFactory
         THEN [value |-> definition.factoryValue, factoryCalls |-> 1]
         ELSE [value |-> UndefinedResult, factoryCalls |-> 0]

\* resolveInitialResult: the value, and how often the factory was called.
resolveInitialResult(definition, options) ==
    IF options.given /\ options.hasInitialResult
    THEN [value |-> options.initialResult, factoryCalls |-> 0]
    ELSE IF definition.hasFactory
         THEN [value |-> definition.factoryValue, factoryCalls |-> 1]
         ELSE [value |-> UndefinedResult, factoryCalls |-> 0]

\* A trigger that treats every descriptor as internal.
skipLifecycleAlways(definition) == TRUE

skipLifecycle(definition) == definition.internal = TRUE

\* A runAsync that awaits nothing.
neverPromiseLike(completion) == FALSE

isPromiseLike(completion) == completion.kind = "promise"

\* trigger, lines 179 and 196: whether the captured error is re-raised.
rethrows(options, ctx) ==
    options.given /\ options.throwOnError /\ ctx.stoppedForError /\ Truthy(ctx.error)

\* ---------------------------------------------------------------- invocations
\* The running part of a state: registry, invocations and call stack.
Machine(ev, hp, ivs, stk) == [events |-> ev, heap |-> hp, invs |-> ivs, stack |-> stk]

\* What an invocation observed, in order: a lifecycle notification it emitted
\* (with the error it carried), or a subscriber invoked for it: one of its own
\* (role "self") or a listener of a notification it emitted.
Emitted(role, arg) == [tag |-> "emit", role |-> role, who |-> "", arg |-> arg]
Invoked(role, h) == [tag |-> "invoke", role |-> role, who |-> h, arg |-> Undefined]

Observe(seq, entry) == IF Len(seq) < MaxObserved THEN Append(seq, entry) ELSE seq

Note(m, i, entry) ==
    IF i = 0 THEN m ELSE [m EXCEPT !.invs[i].trace = Observe(@, entry)]

\* An invocation that works with the descriptor passed in, not the stored one.
InvocationOfPassed(b, definition, options, role, parent) ==
    LET ref == tryGetRecord(b, definition.name)
        record == RecordAt(b.heap, ref)
        initial == resolveInitialResult(definition, options)
    IN [ref |-> ref,
        options |-> options,
        context |-> EventInvocationContext(definition, initial.value,
                                           Len(record.subscribers) > 0),
        pc |-> IF skipLifecycle(definition) THEN "run" ELSE "before",
        it |-> 0,
        handler |-> "",
        at |-> 0,
        role |-> role,
        parent |-> parent,
        payload |-> Undefined,
        trace |-> <<>>,
        ran |-> <<>>,
        initial |-> initial.value,
        factoryCalls |-> initial.factoryCalls,
        size |-> Len(record.subscribers),
        outcome |-> "none",
        thrown |-> Undefined]

\* trigger, lines 149-159: the entry, the initial result, the fresh context.
Invocation(b, definition, options, role, parent) ==
    LET ref == tryGetRecord(b, definition.name)
        record == RecordAt(b.heap, ref)
        initial == resolveInitialResult(record.definition, options)
    IN [ref |-> ref,
        options |-> options,
        context |-> EventInvocationContext(record.definition, initial.value,
                                           Len(record.subscribers) > 0),
        pc |-> IF skipLifecycle(record.definition) THEN "run" ELSE "before",
        it |-> 0,
        handler |-> "",
        at |-> 0,
        role |-> role,
        parent |-> parent,
        payload |-> Undefined,
        trace |-> <<>>,
        ran |-> <<>>,
        initial |-> initial.value,
        factoryCalls |-> initial.factoryCalls,
        size |-> Len(record.subscribers),
        outcome |-> "none",
        thrown |-> Undefined]

trigger(m, definition, options, role, parent) ==
    LET b == ensureRecord(Bus(m.events, m.heap), definition) IN
    Machine(b.events, b.heap,
            Append(m.invs, Invocation(b, definition, options, role, parent)),
            Append(m.stack, Len(m.invs) + 1))

\* triggerInternal(definition, payload), called for invocation `parent` (0: for a
\* subscribe or unsubscribe call).
triggerInternal(m, role, parent, arg) ==
    LET n == trigger(Note(m, parent, Emitted(role, arg)), CORE_EVENTS[role], InternalOptions,
                     role, parent)
    IN [n EXCEPT !.invs[Len(n.invs)].payload = arg]

\* The payload of subscriber-registered and subscriber-removed: the stored
\* descriptor and the handler, written as the pair of their identities.
MutationPayloadOfEventOnly(definition, handler) == definition.id \o " / "
MutationPayload(definition, handler) == definition.id \o " / " \o handler

\* An error report that does not look at the internal flag.
reportAlways(m, i) ==
    triggerInternal(m, "subscriberError", i, m.invs[i].context.error)

handleSubscriberError(m, i) ==
    IF RecordAt(m.heap, m.invs[i].ref).definition.internal
    THEN m
    ELSE triggerInternal(m, "subscriberError", i, m.invs[i].context.error)

\* The value a subscriber's call evaluates to.
ReturnedValue(completion) ==
    IF completion.kind = "promise" THEN PromiseObject ELSE completion.value

Finished(f, ctx) ==
    [f.ran EXCEPT ![Len(f.ran)].left = ctx.result, ![Len(f.ran)].finished = TRUE]

\* An assignment that does not skip undefined.
assignedAlways(m, i, value) ==
    LET f == m.invs[i]
        ctx == setResult(f.context, value)
    IN [m EXCEPT !.invs[i] = [f EXCEPT !.context = ctx, !.pc = "run", !.ran = Finished(f, ctx)]]

\* An assignment after which a context stopped for an error is reported.
assignedReporting(m, i, value) ==
    LET f == m.invs[i]
        ctx == IF value # UndefinedResult THEN setResult(f.context, value) ELSE f.context
        n == [m EXCEPT !.invs[i] = [f EXCEPT !.context = ctx, !.pc = "run", !.ran = Finished(f, ctx)]]
    IN IF ctx.stoppedForError THEN handleSubscriberError(n, i) ELSE n

\* runSync lines 223-225, runAsync lines 247-249.
assigned(m, i, value) ==
    LET f == m.invs[i]
        ctx == IF value # UndefinedResult THEN setResult(f.context, value) ELSE f.context
    IN [m EXCEPT !.invs[i] = [f EXCEPT !.context = ctx, !.pc = "run", !.ran = Finished(f, ctx)]]

\* The catch blocks: runSync lines 226-230, runAsync lines 250-254.
caught(m, i, error) ==
    LET f == m.invs[i]
        ctx == stopForError(f.context, error, STOPPED_BY_ERROR)
    IN handleSubscriberError(
           [m EXCEPT !.invs[i] = [f EXCEPT !.context = ctx, !.pc = "exit", !.ran = Finished(f, ctx)]],
           i)

\* ---------------------------------------------------------------- subscriber sets
\* A JavaScript Set of functions: insertion-ordered, without duplicates.
SetHas(subs, h) == \E k \in 1..Len(subs) : subs[k] = h
SetAddAgain(subs, h) == Append(subs, h)
SetAdd(subs, h) == IF SetHas(subs, h) THEN subs ELSE Append(subs, h)
SetDelete(subs, h) == SelectSeq(subs, LAMBDA x : x # h)
IndexOf(subs, h) == CHOOSE k \in 1..Len(subs) : subs[k] = h

\* Set.prototype.delete under live iterators: an iterator that already passed the
\* deleted entry keeps pointing at the entry it would visit next.
\* A deletion that drops the entry of a name with its last subscriber.
deleteSubscriberAndEmptyEntry(m, ref, h) ==
    LET subs == RecordAt(m.heap, ref).subscribers
        at == IndexOf(subs, h)
    IN [m EXCEPT
          !.events[ref[1]] = IF SetDelete(subs, h) = <<>> THEN 0 ELSE @,
          !.heap[ref[1]][ref[2]].subscribers = SetDelete(subs, h),
          !.invs = [i \in DOMAIN m.invs |->
                      IF m.invs[i].ref = ref /\ m.invs[i].pc # "done" /\ at <= m.invs[i].it
                      THEN [m.invs[i] EXCEPT !.it = @ - 1]
                      ELSE m.invs[i]]]

deleteSubscriber(m, ref, h) ==
    LET subs == RecordAt(m.heap, ref).subscribers
        at == IndexOf(subs, h)
    IN [m EXCEPT
          !.heap[ref[1]][ref[2]].subscribers = SetDelete(subs, h),
          !.invs = [i \in DOMAIN m.invs |->
                      IF m.invs[i].ref = ref /\ m.invs[i].pc # "done" /\ at <= m.invs[i].it
                      THEN [m.invs[i] EXCEPT !.it = @ - 1]
                      ELSE m.invs[i]]]

\* subscribe (lines 84-106) and unsubscribe (lines 108-127) as a subscriber of
\* invocation `parent` calls them while its chain runs.
subscribeIn(m, d, h, parent) ==
    LET b == ensureRecord(Bus(m.events, m.heap), d)
        ref == tryGetRecord(b, d.name)
        record == RecordAt(b.heap, ref)
        alreadyHad == SetHas(record.subscribers, h)
        added == [m EXCEPT !.events = b.events,
                           !.heap = [b.heap EXCEPT ![ref[1]][ref[2]].subscribers = SetAdd(@, h)]]
    IN IF ~record.definition.internal /\ ~alreadyHad
       THEN triggerInternal(added, "subscriberRegistered", parent,
                            MutationPayload(record.definition, h))
       ELSE added

unsubscribeIn(m, d, h, parent) ==
    IF ~hasEvent(Bus(m.events, m.heap), d.name)
    THEN m
    ELSE LET ref == tryGetRecord(Bus(m.events, m.heap), d.name)
             record == RecordAt(m.heap, ref)
             removed == SetHas(record.subscribers, h)
             deleted == IF removed THEN deleteSubscriber(m, ref, h) ELSE m
         IN IF removed /\ ~record.definition.internal
            THEN triggerInternal(deleted, "subscriberRemoved", parent,
                                 MutationPayload(record.definition, h))
            ELSE deleted

\* ---------------------------------------------------------------- the running state
Now == Machine(events, heap, invs, stack)

\* The mode each name had at its first registration, "none" before it.
FirstModes(first, m) ==
    [n \in DOMAIN first |->
        IF first[n] = "none" /\ m.events[n] # 0
        THEN RecordAt(m.heap, <<n, m.events[n]>>).definition.mode
        ELSE first[n]]

Commit(m) ==
    /\ events' = m.events
    /\ heap' = m.heap
    /\ invs' = m.invs
    /\ stack' = m.stack
    /\ bound' = FirstModes(bound, m)

Top == stack[Len(stack)]
Pop(stk) == SubSeq(stk, 1, Len(stk) - 1)
DefinitionOf(hp, f) == RecordAt(hp, f.ref).definition
\* A chain that iterates the subscribers the entry had when trigger was called.
SubscribersOfSnapshot(hp, f) ==
    SubSeq(RecordAt(hp, f.ref).subscribers, 1,
           IF f.size < Len(RecordAt(hp, f.ref).subscribers)
           THEN f.size ELSE Len(RecordAt(hp, f.ref).subscribers))
\* for (const handler of record.subscribers): the Set of the entry, as it is now.
SubscribersOf(hp, f) == RecordAt(hp, f.ref).subscribers

\* A string given where a descriptor or a name is accepted.
ByName(name) == [name |-> name]

\* A completed public call: its arguments, what it returned or raised, and how
\* many subscribers the name it was given had when it was made.
Arguments(event, handler) == [event |-> event, handler |-> handler]
Result(op, args, value, threw) ==
    [op |-> op, args |-> args, value |-> value, threw |-> threw,
     had |-> IF events[args.event.name] = 0 THEN 0
             ELSE Len(RecordAt(heap, <<args.event.name, events[args.event.name]>>).subscribers)]
NoResult ==
    [op |-> "none", args |-> Arguments(ByName(""), ""), value |-> Undefined, threw |-> "none",
     had |-> 0]

\* The handle subscribe returns; `used` tells whether its unsubscribe was called,
\* `again` whether it was called more than once.
EventSubscription(name, definition, handler) ==
    [event |-> name, definition |-> definition, handler |-> handler,
     used |-> FALSE, again |-> FALSE]
NoHandle == EventSubscription("", ByName(""), "")

\* No trigger is in progress.
Quiescent == stack = <<>> /\ \A i \in DOMAIN invs : invs[i].pc = "done"
\* The driver makes its next call when the previous one has completed (it awaits
\* the promise of an async trigger) and it has dropped what that call returned.
Idle == Quiescent /\ invs = <<>> /\ promises = {} /\ ret.op = "none"

\* Entry objects that neither the map nor an invocation refers to any more are
\* dropped; where no invocation holds an entry of a name, the entry the map
\* holds is the only one left and is numbered anew.
Collect(m) ==
    LET held(n) == {m.invs[i].ref[2] : i \in {j \in DOMAIN m.invs : m.invs[j].ref[1] = n}}
        last(n) == CHOOSE g \in held(n) \cup {m.events[n]} :
                       \A x \in held(n) \cup {m.events[n]} : x <= g
    IN [m EXCEPT
          !.heap = [n \in DOMAIN m.heap |->
                      IF held(n) # {} THEN SubSeq(m.heap[n], 1, last(n))
                      ELSE IF m.events[n] = 0 THEN <<>>
                      ELSE <<m.heap[n][m.events[n]]>>],
          !.events = [n \in DOMAIN m.events |->
                      IF held(n) = {} /\ m.events[n] # 0 THEN 1 ELSE m.events[n]]]


RECURSIVE SumLen(_, _)
SumLen(hp, names) ==
    IF names = {} THEN 0
    ELSE LET n == CHOOSE x \in names : TRUE IN
         (IF events[n] = 0 THEN 0 ELSE Len(hp[n][events[n]].subscribers)) + SumLen(hp, names \ {n})
Subscriptions == SumLen(heap, DOMAIN heap)
\* A call on the engine for the caller's descriptor d, made while a chain is in
\* progress: by a subscriber of invocation `parent`, or (parent 0) by other code
\* while runAsync is suspended. removeEvent (lines 129-140) deletes the entry of
\* the name from the map; the entry object itself is left to whoever holds it.
callIn(m, d, s, parent) ==
    CASE s.op = "subscribe" -> subscribeIn(m, d, s.handler, parent)
      [] s.op = "unsubscribe" -> unsubscribeIn(m, d, s.handler, parent)
      [] s.op = "removeEvent" ->
            IF /\ hasEvent(Bus(m.events, m.heap), d.name)
               /\ ~RecordAt(m.heap, tryGetRecord(Bus(m.events, m.heap), d.name)).definition.internal
            THEN Collect([m EXCEPT !.events[d.name] = 0])
            ELSE m

\* ---------------------------------------------------------------- public operations
\* registerEvent(definition), lines 41-63.
RegisterEvent(d) ==
    /\ Idle
    /\ LET r == registerEvent(Bus(events, heap), d) IN
       /\ Commit([Now EXCEPT !.events = r.bus.events, !.heap = r.bus.heap])
       /\ ret' = Result("registerEvent", Arguments(d, ""), r.value, r.threw)
    /\ UNCHANGED <<target, promises, handle>>

\* subscribe(definition, handler), lines 84-106.
Subscribe(d, h) ==
    /\ Idle
    /\ LET b == ensureRecord(Bus(events, heap), d)
           ref == tryGetRecord(b, d.name)
           record == RecordAt(b.heap, ref)
           alreadyHad == SetHas(record.subscribers, h)
           added == [Now EXCEPT !.events = b.events,
                                  !.heap = [b.heap EXCEPT ![ref[1]][ref[2]].subscribers = SetAdd(@, h)]]
       IN /\ alreadyHad \/ Subscriptions < MaxSubs
          /\ IF ~record.definition.internal /\ ~alreadyHad
             THEN Commit(triggerInternal(added, "subscriberRegistered", 0,
                                         MutationPayload(record.definition, h)))
             ELSE Commit(added)
          /\ ret' = Result("subscribe", Arguments(d, h),
                           record.definition.name, "none")
    /\ UNCHANGED <<target, promises, handle>>

\* unsubscribe(definition, handler), lines 108-127, called by the caller (op
\* "unsubscribe") or through a subscription handle, which drops what it returns.
unsubscribeEnsuring(d, h, op) ==
    /\ Idle
    /\ IF ~hasEvent(Bus(events, heap), d.name)
       THEN /\ LET b == ensureRecord(Bus(events, heap), d)
               IN Commit([Now EXCEPT !.events = b.events, !.heap = b.heap])
            /\ ret' = Result(op, Arguments(d, h),
                             IF op = "unsubscribe" THEN "false" ELSE Undefined, "none")
       ELSE LET ref == tryGetRecord(Bus(events, heap), d.name)
                record == RecordAt(heap, ref)
                removed == SetHas(record.subscribers, h)
                deleted == IF removed THEN deleteSubscriber(Now, ref, h) ELSE Now
            IN /\ IF removed /\ ~record.definition.internal
                  THEN Commit(triggerInternal(deleted, "subscriberRemoved", 0,
                                              MutationPayload(record.definition, h)))
                  ELSE Commit(deleted)
               /\ ret' = Result(op, Arguments(d, h),
                                IF op # "unsubscribe" THEN Undefined
                                ELSE IF removed THEN "true" ELSE "false",
                                "none")
    /\ UNCHANGED <<target, promises>>

unsubscribe(d, h, op) ==
    /\ Idle
    /\ IF ~hasEvent(Bus(events, heap), d.name)
       THEN /\ Commit(Now)
            /\ ret' = Result(op, Arguments(d, h),
                             IF op = "unsubscribe" THEN "false" ELSE Undefined, "none")
       ELSE LET ref == tryGetRecord(Bus(events, heap), d.name)
                record == RecordAt(heap, ref)
                removed == SetHas(record.subscribers, h)
                deleted == IF removed THEN deleteSubscriber(Now, ref, h) ELSE Now
            IN /\ IF removed /\ ~record.definition.internal
                  THEN Commit(triggerInternal(deleted, "subscriberRemoved", 0,
                                              MutationPayload(record.definition, h)))
                  ELSE Commit(deleted)
               /\ ret' = Result(op, Arguments(d, h),
                                IF op # "unsubscribe" THEN Undefined
                                ELSE IF removed THEN "true" ELSE "false",
                                "none")
    /\ UNCHANGED <<target, promises>>

Unsubscribe(d, h) ==
    /\ unsubscribe(d, h, "unsubscribe")
    /\ UNCHANGED handle

\* The caller keeps the handle its subscribe call returned (line 100), when the
\* call was for its own descriptor.
KeepHandle ==
    /\ Quiescent
    /\ ret.op = "subscribe"
    /\ ret.args.event = target
    /\ handle.event = ""
    /\ handle' = EventSubscription(ret.value, ret.args.event, ret.args.handler)
    /\ Commit(Collect(Machine(events, heap, <<>>, <<>>)))
    /\ promises' = {}
    /\ ret' = NoResult
    /\ UNCHANGED target

\* handle.unsubscribe(), lines 102-104.
HandleUnsubscribe ==
    /\ handle.event # ""
    /\ unsubscribe(handle.definition, handle.handler, "handle.unsubscribe")
    /\ handle' = [handle EXCEPT !.used = TRUE, !.again = @ \/ handle.used]

\* removeEvent(definition | name), lines 129-140.
RemoveEventKeepingEntry(event) ==
    /\ Idle
    /\ Commit(Now)
    /\ ret' = Result("removeEvent", Arguments(event, ""),
                     IF hasEvent(Bus(events, heap), event.name) THEN "true" ELSE "false", "none")
    /\ UNCHANGED <<target, promises, handle>>

RemoveEvent(event) ==
    /\ Idle
    /\ IF ~hasEvent(Bus(events, heap), event.name)
       THEN /\ Commit(Now)
            /\ ret' = Result("removeEvent", Arguments(event, ""), "false", "none")
       ELSE LET record == RecordAt(heap, tryGetRecord(Bus(events, heap), event.name)) IN
            IF record.definition.internal
            THEN /\ Commit(Now)
                 /\ ret' = Result("removeEvent", Arguments(event, ""),
                                  Undefined, CannotBeRemoved(record.definition.name))
            ELSE /\ Commit(Collect([Now EXCEPT !.events[record.definition.name] = 0]))
                 /\ ret' = Result("removeEvent", Arguments(event, ""),
                                  "true", "none")
    /\ UNCHANGED <<target, promises, handle>>

\* trigger(definition, payload, options), lines 142-159: up to the fresh context.
Trigger(d, options) ==
    /\ Idle
    /\ Commit(trigger(Now, d, options, "user", 0))
    /\ ret' = Result("trigger", Arguments(d, ""), d.name, "none")
    /\ UNCHANGED <<target, promises, handle>>

\* The driver drops the context or value the completed call returned.
Forget ==
    /\ Quiescent
    /\ ~Idle
    /\ Commit(Collect(Machine(events, heap, <<>>, <<>>)))
    /\ promises' = {}
    /\ ret' = NoResult
    /\ UNCHANGED <<target, handle>>

\* ---------------------------------------------------------------- steps of a trigger
Running(pc) == stack # <<>> /\ invs[Top].pc = pc
Unchanged == UNCHANGED <<target, promises, ret, handle>>

\* trigger lines 161-167: the before-trigger notification.
NotifyBefore ==
    /\ Running("before")
    /\ Len(stack) < MaxDepth
    /\ Commit(triggerInternal([Now EXCEPT !.invs[Top].pc = "run"], "beforeTrigger", Top, Undefined))
    /\ Unchanged

\* The loop head of runSync (lines 210-216) and runAsync (lines 238-244): the next
\* subscriber of the live set is called and runs up to its return.
Invoke ==
    /\ Running("run")
    /\ LET f == invs[Top]
           subs == SubscribersOf(heap, f)
       IN /\ f.it < Len(subs)
          /\ ~f.context.stopped
          /\ LET h == subs[f.it + 1]
                 g == [f EXCEPT !.it = @ + 1,
                                !.handler = h,
                                !.at = 0,
                                !.context = ApplyOps(@, Handler(h).ops),
                                !.ran = Observe(@, [handler |-> h, seen |-> f.context.result,
                                                    left |-> f.context.result, finished |-> FALSE]),
                                !.trace = Observe(@, Invoked("self", h)),
                                !.pc = "return"]
             IN Commit(Note([Now EXCEPT !.invs[Top] = g], f.parent, Invoked(f.role, h)))
    /\ Unchanged

\* The subscriber that is running executes the next statement of its body.
Statement ==
    /\ Running("return")
    /\ Len(stack) < MaxDepth
    /\ LET f == invs[Top]
           body == Body(f.handler)
       IN /\ f.at < Len(body)
          /\ LET s == body[f.at + 1]
                 m == [Now EXCEPT !.invs[Top].at = @ + 1]
             IN Commit(IF s.op \in {"subscribe", "unsubscribe", "removeEvent"}
                       THEN callIn(m, target, s, Top)
                       ELSE [m EXCEPT !.invs[Top].context = ApplyOp(@, s)])
    /\ Unchanged

\* The subscriber returned a value that is not awaited: it becomes the result
\* unless it is undefined.
ReturnValue ==
    /\ Running("return")
    /\ LET f == invs[Top]
           c == Handler(f.handler).ret
       IN /\ f.at = Len(Body(f.handler))
          /\ c.kind # "throw"
          /\ ~isPromiseLike(c)
          /\ Commit(assigned(Now, Top, ReturnedValue(c)))
          /\ promises' = IF c.kind = "promise" /\ DefinitionOf(heap, f).mode # "sync"
                         THEN promises \cup {[inv |-> Top, handler |-> f.handler, settled |-> FALSE]}
                         ELSE promises
    /\ UNCHANGED <<target, ret, handle>>

\* The subscriber raised, or returned a promise to runSync: the catch block.
Catch ==
    /\ Running("return")
    /\ Len(stack) < MaxDepth
    /\ LET f == invs[Top]
           c == Handler(f.handler).ret
           sync == DefinitionOf(heap, f).mode = "sync"
       IN /\ f.at = Len(Body(f.handler))
          /\ c.kind = "throw" \/ (sync /\ isPromiseLike(c))
          /\ Commit(caught(Now, Top, IF c.kind = "throw" THEN c.error ELSE TypeErrorValue))
    /\ Unchanged

\* runAsync line 245: the subscriber returned a promise; runAsync is suspended
\* until the promise has settled.
Await ==
    /\ Running("return")
    /\ LET f == invs[Top]
           c == Handler(f.handler).ret
       IN /\ f.at = Len(Body(f.handler))
          /\ DefinitionOf(heap, f).mode # "sync"
          /\ c.kind # "throw"
          /\ isPromiseLike(c)
          /\ promises' = promises \cup {[inv |-> Top, handler |-> f.handler, settled |-> FALSE]}
          /\ Commit([Now EXCEPT !.invs[Top].pc = "await", !.stack = Pop(stack)])
    /\ UNCHANGED <<target, ret, handle>>

\* The loop of runSync is over (the set is exhausted, the context is stopped, or
\* the catch block broke out of it); trigger goes on at line 172.
RunSyncReturns ==
    /\ stack # <<>>
    /\ LET f == invs[Top]
           d == DefinitionOf(heap, f)
       IN /\ d.mode = "sync"
          /\ \/ f.pc = "exit"
             \/ f.pc = "run" /\ (f.context.stopped \/ f.it >= Len(SubscribersOf(heap, f)))
          /\ Commit([Now EXCEPT !.invs[Top].pc = IF skipLifecycle(d) THEN "finish" ELSE "after"])
    /\ Unchanged

\* The loop of runAsync is over: its promise resolves with the context, and the
\* callback of line 188 is queued.
RunAsyncReturns ==
    /\ stack # <<>>
    /\ LET f == invs[Top]
           d == DefinitionOf(heap, f)
       IN /\ d.mode # "sync"
          /\ \/ f.pc = "exit"
             \/ f.pc = "run" /\ (f.context.stopped \/ f.it >= Len(SubscribersOf(heap, f)))
          /\ Commit([Now EXCEPT !.invs[Top].pc = "then", !.stack = Pop(stack)])
    /\ Unchanged

\* A promise a subscriber returned settles, after the rest of the subscriber ran.
\* A settlement whose late statements act on the oldest context in progress.
SettleShared(p) ==
    /\ stack = <<>>
    /\ p \in promises
    /\ ~p.settled
    /\ invs' = [invs EXCEPT ![1].context = ApplyOps(@, Handler(p.handler).late)]
    /\ promises' = (promises \ {p}) \cup {[p EXCEPT !.settled = TRUE]}
    /\ UNCHANGED <<target, events, heap, stack, ret, handle, bound>>

Settle(p) ==
    /\ stack = <<>>
    /\ p \in promises
    /\ ~p.settled
    /\ invs' = [invs EXCEPT ![p.inv].context = ApplyOps(@, Handler(p.handler).late)]
    /\ promises' = (promises \ {p}) \cup {[p EXCEPT !.settled = TRUE]}
    /\ UNCHANGED <<target, events, heap, stack, ret, handle, bound>>

\* runAsync goes on after its await: the fulfilment value is assigned, a
\* rejection is caught.
ResumeAwait(p) ==
    /\ stack = <<>>
    /\ p \in promises
    /\ p.settled
    /\ invs[p.inv].pc = "await"
    /\ invs[p.inv].handler = p.handler
    /\ LET c == Handler(p.handler).ret
           m == [Now EXCEPT !.stack = <<p.inv>>]
       IN Commit(IF c.rejects THEN caught(m, p.inv, c.error) ELSE assigned(m, p.inv, c.value))
    /\ promises' = promises \ {p}
    /\ UNCHANGED <<target, ret, handle>>

\* The callback of line 188 starts.
ResumeThen(i) ==
    /\ stack = <<>>
    /\ i \in DOMAIN invs
    /\ invs[i].pc = "then"
    /\ Commit([Now EXCEPT !.stack = <<i>>,
                          !.invs[i].pc = IF skipLifecycle(DefinitionOf(heap, invs[i]))
                                         THEN "finish" ELSE "after"])
    /\ Unchanged

\* trigger lines 172-177 and 189-194: the after-trigger notification.
NotifyAfter ==
    /\ Running("after")
    /\ Len(stack) < MaxDepth
    /\ Commit(triggerInternal([Now EXCEPT !.invs[Top].pc = "finish"], "afterTrigger", Top, Undefined))
    /\ Unchanged

\* trigger lines 179-185 and 196-200: the captured error is re-raised, or the
\* context is returned. The invocation of a lifecycle notification is dropped
\* (its caller discards what it returns).
Finish ==
    /\ Running("finish")
    /\ LET f == invs[Top]
           sync == DefinitionOf(heap, f).mode = "sync"
           raise == rethrows(f.options, f.context)
           g == [f EXCEPT !.pc = "done",
                          !.outcome = IF raise THEN (IF sync THEN "threw" ELSE "rejected")
                                      ELSE (IF sync THEN "returned" ELSE "resolved"),
                          !.thrown = IF raise THEN f.context.error ELSE Undefined]
       IN Commit([Now EXCEPT !.stack = Pop(stack),
                             !.invs = IF f.role # "user" /\ Top = Len(invs)
                                      THEN SubSeq(invs, 1, Len(invs) - 1)
                                      ELSE [invs EXCEPT ![Top] = g]])
    /\ Unchanged

\* ---------------------------------------------------------------- the driver
SubscribeInputs ==
    {<<target, h>> : h \in HandlerIds}
        \cup {<<CORE_EVENTS[r], "hNoop">> : r \in CoreRoles}
        \cup {<<CORE_EVENTS["subscriberError"], "hThrow">>}

\* unsubscribe is called for the subscriptions that exist, and for one that does not.
UnsubscribeInputs ==
    {in \in SubscribeInputs :
        \/ in = <<target, "hNoop">>
        \/ /\ events[in[1].name] # 0
           /\ SetHas(RecordAt(heap, <<in[1].name, events[in[1].name]>>).subscribers, in[2])}

RemoveInputs == {ByName(target.name), target, ByName(CoreName("afterTrigger"))}

\* The engines a behaviour starts from: new EventBus() with each descriptor of the
\* caller, new EventBus({ includeCoreEvents: false }) with a sync and an async one.
Engines ==
    {<<TRUE, d>> : d \in UserDefinitions} \cup {<<FALSE, SyncEvent>>, <<FALSE, AsyncEvent>>}

Init ==
    /\ \E e \in Engines :
          /\ target = e[2]
          /\ events = NewEventBus(e[1]).events
          /\ heap = NewEventBus(e[1]).heap
    /\ stack = <<>>
    /\ invs = <<>>
    /\ promises = {}
    /\ ret = NoResult
    /\ handle = NoHandle
    /\ bound = FirstModes([n \in AllNames |-> "none"], Bus(events, heap))

\* As Init, and the caller's descriptor may carry a reserved lifecycle name.
InitAnyName ==
    /\ \E e \in Engines \cup {<<TRUE, ShadowBeforeTrigger>>, <<FALSE, ShadowBeforeTrigger>>} :
          /\ target = e[2]
          /\ events = NewEventBus(e[1]).events
          /\ heap = NewEventBus(e[1]).heap
    /\ stack = <<>>
    /\ invs = <<>>
    /\ promises = {}
    /\ ret = NoResult
    /\ handle = NoHandle
    /\ bound = FirstModes([n \in AllNames |-> "none"], Bus(events, heap))

Next ==
    \/ RegisterEvent(target)
    \/ \E in \in SubscribeInputs : Subscribe(in[1], in[2])
    \/ \E in \in UnsubscribeInputs : Unsubscribe(in[1], in[2])
    \/ \E event \in RemoveInputs : RemoveEvent(event)
    \/ \E options \in OptionInputs : Trigger(target, options)
    \/ NotifyBefore
    \/ Invoke
    \/ ReturnValue
    \/ Catch
    \/ Await
    \/ RunSyncReturns
    \/ RunAsyncReturns
    \/ \E p \in promises : Settle(p)
    \/ \E p \in promises : ResumeAwait(p)
    \/ \E i \in DOMAIN invs : ResumeThen(i)
    \/ NotifyAfter
    \/ Finish
    \/ Forget

Spec == Init /\ [][Next]_vars

\* ---------------------------------------------------------------- the registry driver
\* A caller that works on one name with several descriptor objects, passes names
\* as well as descriptors, and keeps a subscription handle.
RegistryEngines ==
    {<<TRUE, SyncEvent>>, <<TRUE, internalEvent>>, <<FALSE, SyncEvent>>}

Descriptors == {target, duplicate(target), conflicting(target)}
RegistryHandlers == {"hNoop", "hInc"}
MutationEvents == {CORE_EVENTS["subscriberRegistered"], CORE_EVENTS["subscriberRemoved"]}

RegistrySubscribeInputs ==
    {<<d, h>> : d \in Descriptors, h \in RegistryHandlers}
        \cup {<<d, "hNoop">> : d \in MutationEvents}

RegistryRemoveInputs ==
    {ByName(target.name), target, conflicting(target),
     CORE_EVENTS["subscriberRemoved"], ByName(CoreName("subscriberRegistered"))}

InitRegistry ==
    /\ \E e \in RegistryEngines :
          /\ target = e[2]
          /\ events = NewEventBus(e[1]).events
          /\ heap = NewEventBus(e[1]).heap
    /\ stack = <<>>
    /\ invs = <<>>
    /\ promises = {}
    /\ ret = NoResult
    /\ handle = NoHandle
    /\ bound = FirstModes([n \in AllNames |-> "none"], Bus(events, heap))

NextRegistry ==
    \/ \E d \in Descriptors : RegisterEvent(d)
    \/ \E in \in RegistrySubscribeInputs : Subscribe(in[1], in[2])
    \/ KeepHandle
    \/ HandleUnsubscribe
    \/ \E in \in RegistrySubscribeInputs : Unsubscribe(in[1], in[2])
    \/ \E event \in RegistryRemoveInputs : RemoveEvent(event)
    \/ \E d \in Descriptors : Trigger(d, NoOptions)
    \/ NotifyBefore
    \/ Invoke
    \/ ReturnValue
    \/ RunSyncReturns
    \/ RunAsyncReturns
    \/ \E i \in DOMAIN invs : ResumeThen(i)
    \/ NotifyAfter
    \/ Finish
    \/ Forget

SpecRegistry == InitRegistry /\ [][NextRegistry]_vars

SpecAnyName == InitAnyName /\ [][Next]_vars

\* ---------------------------------------------------------------- observations
Invocations == DOMAIN invs
UserInvocations == {i \in Invocations : invs[i].role = "user"}
\* trigger has returned to its caller (async: its promise has settled).
Returned(i) == invs[i].pc = "done"
StoredDefinition(i) == DefinitionOf(heap, invs[i])
Chain(i) == SubscribersOf(heap, invs[i])
ThrowOnError(i) == invs[i].options.given /\ invs[i].options.throwOnError
Raised(i) == invs[i].outcome \in {"threw", "rejected"}
Handed(i) == invs[i].outcome \in {"returned", "resolved"}

Emits(i, role) ==
    {k \in 1..Len(invs[i].trace) : invs[i].trace[k].tag = "emit" /\ invs[i].trace[k].role = role}
Calls(i, role) ==
    {k \in 1..Len(invs[i].trace) : invs[i].trace[k].tag = "invoke" /\ invs[i].trace[k].role = role}
AnyEmit(i) == \E k \in 1..Len(invs[i].trace) : invs[i].trace[k].tag = "emit"

\* The subscribers of the driver, as their source reads: the ones that neither
\* stop nor raise, with the result each leaves given the result it saw ...
PlainHandlers == {"hNoop", "hInc", "hRet"}
Leaves(h, seen) ==
    CASE h = "hNoop" -> seen
      [] h \in {"hInc", "hAsync"} -> ((IF seen < 0 THEN 0 ELSE seen) + 1) % ResultMod
      [] h = "hRet" -> 0
\* ... and the ones that raise, with the value raised (hReject: the rejection).
RaisedBy(h) ==
    CASE h = "hThrow" -> "boom"
      [] h = "hThrowUndefined" -> Undefined
      [] h = "hReject" -> "async-fail"
RaisesIn(h, mode) == h \in {"hThrow", "hThrowUndefined"} \/ (h = "hReject" /\ mode = "async")

\* ---------------------------------------------------------------- the context driver
\* new EventBus() with a sync and an async descriptor of the caller, whose
\* subscribers make several calls on their context.
ContextEngines == {<<TRUE, SyncEvent>>, <<TRUE, AsyncEvent>>}
ContextSubscribers == ContextHandlers \cup {"hInc", "hThrowUndefined"}

InitContext ==
    /\ \E e \in ContextEngines :
          /\ target = e[2]
          /\ events = NewEventBus(e[1]).events
          /\ heap = NewEventBus(e[1]).heap
    /\ stack = <<>>
    /\ invs = <<>>
    /\ promises = {}
    /\ ret = NoResult
    /\ handle = NoHandle
    /\ bound = FirstModes([n \in AllNames |-> "none"], Bus(events, heap))

NextContext ==
    \/ \E h \in ContextSubscribers : Subscribe(target, h)
    \/ Trigger(target, NoOptions)
    \/ NotifyBefore
    \/ Invoke
    \/ Statement
    \/ ReturnValue
    \/ Catch
    \/ Await
    \/ RunSyncReturns
    \/ RunAsyncReturns
    \/ \E p \in promises : Settle(p)
    \/ \E p \in promises : ResumeAwait(p)
    \/ \E i \in DOMAIN invs : ResumeThen(i)
    \/ NotifyAfter
    \/ Finish
    \/ Forget

SpecContext == InitContext /\ [][NextContext]_vars

\* ---------------------------------------------------------------- the re-entrant driver
\* new EventBus() with a sync and an async descriptor of the caller, whose
\* subscribers, and the listeners of before-trigger, subscribe and unsubscribe
\* handlers on the caller's descriptor while a trigger runs.
ReentrantSubscribeInputs ==
    {<<target, h>> : h \in ReentrantHandlers \cup {"hNoop"}}
        \cup {<<CORE_EVENTS["beforeTrigger"], h>> : h \in {"hSubscribeNoop", "hUnsubscribeNoop"}}

\* The steps of the calls in progress: the engine and the subscribers it runs.
StepsReentrant ==
    \/ NotifyBefore
    \/ Invoke
    \/ Statement
    \/ ReturnValue
    \/ RunSyncReturns
    \/ RunAsyncReturns
    \/ \E i \in DOMAIN invs : ResumeThen(i)
    \/ NotifyAfter
    \/ Finish

NextReentrant ==
    \/ \E in \in ReentrantSubscribeInputs : Subscribe(in[1], in[2])
    \/ Trigger(target, NoOptions)
    \/ StepsReentrant
    \/ Forget

SpecReentrant == InitContext /\ [][NextReentrant]_vars

\* Where the calls in progress are: every step moves one of them.
Position == <<stack, [i \in DOMAIN invs |-> <<invs[i].pc, invs[i].it, invs[i].at>>]>>

\* JavaScript runs the call stack to completion and then the queued callbacks:
\* a step of a call in progress that can be taken is taken.
SpecReentrantFair == SpecReentrant /\ WF_Position(StepsReentrant)

\* ---------------------------------------------------------------- the listener driver
\* new EventBus() with a sync and an async descriptor of the caller, and
\* listeners of the lifecycle descriptors that raise.
ListenerSubscribeInputs ==
    {<<CORE_EVENTS[r], "hListenerThrow">> : r \in CoreRoles}
        \cup {<<target, h>> : h \in {"hInc", "hStop", "hThrow"}}
NextListeners ==
    \/ \E in \in ListenerSubscribeInputs : Subscribe(in[1], in[2])
    \/ \E in \in ListenerSubscribeInputs : Unsubscribe(in[1], in[2])
    \/ \E throwOnError \in BOOLEAN :
          Trigger(target, Options(TRUE, FALSE, UndefinedResult, throwOnError))
    \/ NotifyBefore
    \/ Invoke
    \/ ReturnValue
    \/ Catch
    \/ RunSyncReturns
    \/ RunAsyncReturns
    \/ \E i \in DOMAIN invs : ResumeThen(i)
    \/ NotifyAfter
    \/ Finish
    \/ Forget

SpecListeners == InitContext /\ [][NextListeners]_vars

\* ---------------------------------------------------------------- the concurrent driver
\* The caller does not await the promise of an async trigger before it calls
\* trigger again: the second call starts while the first is suspended at an
\* await of runAsync or before the callback of line 188.
TriggerWhileSuspended(d, options) ==
    /\ stack = <<>>
    /\ ~Quiescent
    /\ Len(invs) < MaxTriggers
    /\ Commit(trigger(Now, d, options, "user", 0))
    /\ ret' = Result("trigger", Arguments(d, ""), d.name, "none")
    /\ UNCHANGED <<target, promises, handle>>

NextConcurrent ==
    \/ \E h \in {"hAsync", "hInc", "hReject", "hStop"} : Subscribe(target, h)
    \/ \E options \in {NoOptions, Options(TRUE, TRUE, 7, FALSE)} :
          \/ Trigger(target, options)
          \/ TriggerWhileSuspended(target, options)
    \/ NotifyBefore
    \/ Invoke
    \/ ReturnValue
    \/ Catch
    \/ Await
    \/ RunSyncReturns
    \/ RunAsyncReturns
    \/ \E p \in promises : Settle(p)
    \/ \E p \in promises : ResumeAwait(p)
    \/ \E i \in DOMAIN invs : ResumeThen(i)
    \/ NotifyAfter
    \/ Finish
    \/ Forget

SpecConcurrent == InitContext /\ [][NextConcurrent]_vars

\* ---------------------------------------------------------------- the stored-descriptor driver
\* A caller that passes, for the name of its descriptor, that descriptor or
\* another object that differs from it in mode, internal flag and factory;
\* either may be the one stored, as the name can be removed and come back.
NextStored ==
    \/ \E d \in {target, unlike(target)} :
          \/ \E h \in {"hInc", "hNoop"} : Subscribe(d, h)
          \/ \E options \in {NoOptions, Options(TRUE, TRUE, 7, FALSE)} : Trigger(d, options)
    \/ RemoveEvent(ByName(target.name))
    \/ NotifyBefore
    \/ Invoke
    \/ ReturnValue
    \/ RunSyncReturns
    \/ RunAsyncReturns
    \/ \E i \in DOMAIN invs : ResumeThen(i)
    \/ NotifyAfter
    \/ Finish
    \/ Forget

SpecStored == Init /\ [][NextStored]_vars

\* ---------------------------------------------------------------- the live-chain driver
\* Subscribers that subscribe, unsubscribe and remove the descriptor while
\* their chain runs, and other code that does so while runAsync is suspended
\* at an await or before the callback of line 188.
WhileSuspended(s) ==
    /\ stack = <<>>
    /\ ~Quiescent
    /\ Commit(callIn(Now, target, s, 0))
    /\ Unchanged

NextLive ==
    \/ \E h \in {"hSubscribeNoop", "hUnsubscribeNoop", "hRemoveEvent", "hNoop", "hInc", "hAsync"} :
          Subscribe(target, h)
    \/ Trigger(target, NoOptions)
    \/ \E s \in {Call("subscribe", "hNoop"), Call("unsubscribe", "hInc"), Call("removeEvent", "")} :
          WhileSuspended(s)
    \/ NotifyBefore
    \/ Invoke
    \/ Statement
    \/ ReturnValue
    \/ Catch
    \/ Await
    \/ RunSyncReturns
    \/ RunAsyncReturns
    \/ \E p \in promises : Settle(p)
    \/ \E p \in promises : ResumeAwait(p)
    \/ \E i \in DOMAIN invs : ResumeThen(i)
    \/ NotifyAfter
    \/ Finish
    \/ Forget

SpecLive == InitContext /\ [][NextLive]_vars

\* ---------------------------------------------------------------- C1
\* C1: in sync mode, when no subscriber of the chain stops or raises, a returned
\* trigger has invoked every subscriber exactly once in registration order, the
\* first saw the resolved initial result and each later one the result its
\* predecessor left, and the returned context holds the result the last one left
\* (the initial result for an empty chain), with stopped and stoppedForError false.
C1_SyncChainInOrder ==
    \A i \in UserInvocations :
        LET f == invs[i]
            chain == Chain(i)
            n == Len(chain)
        IN (/\ Returned(i)
            /\ StoredDefinition(i).mode = "sync"
            /\ \A k \in 1..n : chain[k] \in PlainHandlers)
           => /\ Len(f.ran) = n
              /\ \A k \in 1..n :
                    /\ f.ran[k].handler = chain[k]
                    /\ f.ran[k].seen = IF k = 1 THEN f.initial
                                       ELSE Leaves(chain[k - 1], f.ran[k - 1].seen)
              /\ f.context.result = IF n = 0 THEN f.initial
                                    ELSE Leaves(chain[n], f.ran[n].seen)
              /\ ~f.context.stopped
              /\ ~f.context.stoppedForError
              /\ f.outcome = "returned"

\* A returned sync trigger over the chain <<hRet, hInc>>: hInc saw the 0 hRet
\* returned and left 1.
C1_Witness ==
    \E i \in UserInvocations :
        /\ Returned(i)
        /\ StoredDefinition(i).mode = "sync"
        /\ Chain(i) = <<"hRet", "hInc">>
        /\ invs[i].ran[2].seen = 0
        /\ invs[i].context.result = 1

\* ---------------------------------------------------------------- C2
\* C2: in async mode a subscriber is invoked only when every subscriber invoked
\* before it in that trigger has finished (its promise settled and was consumed);
\* a promise a subscriber returned and that has not settled keeps its chain
\* suspended at that subscriber; and the promise of trigger resolves only when
\* the last invoked subscriber has finished, with the result that one left.
C2_AsyncChainSequential ==
    \A i \in UserInvocations :
        LET f == invs[i]
            n == Len(f.ran)
        IN StoredDefinition(i).mode = "async"
           => /\ \A k \in 1..(n - 1) : f.ran[k].finished
              /\ \A p \in promises :
                    (p.inv = i /\ ~p.settled)
                        => /\ f.pc = "await"
                           /\ n > 0
                           /\ f.ran[n].handler = p.handler
                           /\ ~f.ran[n].finished
              /\ f.pc \in {"then", "after", "finish", "done"}
                    => /\ \A k \in 1..n : f.ran[k].finished
                       /\ \A p \in promises : p.inv # i
              /\ (Returned(i) /\ n > 0)
                    => /\ f.context.result = f.ran[n].left
                       /\ f.ran[n].handler \in PlainHandlers \cup {"hAsync"}
                             => f.context.result = Leaves(f.ran[n].handler, f.ran[n].seen)

\* A resolved async trigger over <<hAsync, hInc>>: hInc saw the 1 hAsync left
\* before its promise settled, and left 2.
C2_Witness ==
    \E i \in UserInvocations :
        /\ Returned(i)
        /\ StoredDefinition(i).mode = "async"
        /\ Chain(i) = <<"hAsync", "hInc">>
        /\ Len(invs[i].ran) = 2
        /\ invs[i].ran[2].seen = 1
        /\ invs[i].context.result = 2
        /\ invs[i].outcome = "resolved"

\* ---------------------------------------------------------------- C3
\* C3: in both modes, once a subscriber has called stop("done") and returned, it
\* is the last subscriber invoked in that trigger, and the context trigger hands
\* back has stopped = true, stoppedReason = "done" and stoppedForError = false.
C3_StopEndsChain ==
    \A i \in UserInvocations :
        LET f == invs[i] IN
        \A k \in 1..Len(f.ran) :
            (f.ran[k].handler = "hStop" /\ f.ran[k].finished)
                => /\ k = Len(f.ran)
                   /\ f.context.stopped
                   /\ Returned(i)
                        => /\ Handed(i)
                           /\ f.context.stoppedReason = "done"
                           /\ ~f.context.stoppedForError

\* A returned trigger whose chain is <<hStop, hInc>>: only hStop was invoked.
C3_Witness ==
    \E i \in UserInvocations :
        /\ Returned(i)
        /\ Chain(i) = <<"hStop", "hInc">>
        /\ Len(invs[i].ran) = 1
        /\ invs[i].context.stopped
        /\ invs[i].context.stoppedReason = "done"

\* ---------------------------------------------------------------- C4
\* C4: in both modes, when a subscriber raised (async: or its promise rejected)
\* and throwOnError is not set, no later subscriber is invoked, trigger hands the
\* context back instead of raising, the context has stoppedForError = stopped =
\* true, error = the raised value and stoppedReason "Subscriber threw an error",
\* and for a non-internal descriptor subscriber-error was emitted exactly once,
\* carrying that error.
C4_ErrorCaptured ==
    \A i \in UserInvocations :
        LET f == invs[i]
            d == StoredDefinition(i)
        IN \A k \in 1..Len(f.ran) :
            (RaisesIn(f.ran[k].handler, d.mode) /\ f.ran[k].finished /\ ~ThrowOnError(i))
                => /\ k = Len(f.ran)
                   /\ f.context.stoppedForError
                   /\ f.context.stopped
                   /\ f.context.error = RaisedBy(f.ran[k].handler)
                   /\ f.context.stoppedReason = STOPPED_BY_ERROR
                   /\ ~d.internal
                        => /\ Cardinality(Emits(i, "subscriberError")) = 1
                           /\ \A e \in Emits(i, "subscriberError") :
                                 f.trace[e].arg = RaisedBy(f.ran[k].handler)
                   /\ Returned(i) => Handed(i)

\* A returned trigger of a non-internal descriptor whose chain is <<hThrow, hInc>>,
\* without throwOnError: hInc was not invoked, the error was handed back.
C4_Witness ==
    \E i \in UserInvocations :
        /\ Returned(i)
        /\ ~ThrowOnError(i)
        /\ ~StoredDefinition(i).internal
        /\ Chain(i) = <<"hThrow", "hInc">>
        /\ Len(invs[i].ran) = 1
        /\ invs[i].context.error = "boom"
        /\ invs[i].outcome \in {"returned", "resolved"}

\* ---------------------------------------------------------------- C5
\* C5: with throwOnError set, trigger raises (sync: throws, async: rejects) if and
\* only if the context ended with stoppedForError = true, whatever value was
\* raised or passed to stopForError, and the value it raises is the captured
\* error; otherwise it hands the context back.
C5_ThrowOnErrorRaisesIffErrorState ==
    \A i \in UserInvocations :
        (Returned(i) /\ ThrowOnError(i))
            => /\ Raised(i) <=> invs[i].context.stoppedForError
               /\ Raised(i) => invs[i].thrown = invs[i].context.error
               /\ ~Raised(i) => Handed(i)

\* C5, as the code decides it (trigger lines 179 and 196): with throwOnError set,
\* trigger raises if and only if the context ended with stoppedForError = true
\* and a truthy captured error, and then it raises that error.
C5_RaisesIffTruthyError ==
    \A i \in UserInvocations :
        (Returned(i) /\ ThrowOnError(i))
            => /\ Raised(i) <=> (invs[i].context.stoppedForError /\ Truthy(invs[i].context.error))
               /\ Raised(i) => invs[i].thrown = invs[i].context.error
               /\ ~Raised(i) => Handed(i)

\* A subscriber raised undefined, throwOnError was set, and trigger handed the
\* context back with stoppedForError = true.
C5_Witness ==
    \E i \in UserInvocations :
        /\ Returned(i)
        /\ ThrowOnError(i)
        /\ Len(invs[i].ran) = 1
        /\ invs[i].ran[1].handler = "hThrowUndefined"
        /\ invs[i].context.stoppedForError
        /\ Handed(i)

\* ---------------------------------------------------------------- C6
\* The phase of a trigger an observation belongs to.
Phase(entry) ==
    CASE entry.role = "beforeTrigger" -> 1
      [] entry.role \in {"self", "subscriberError"} -> 2
      [] entry.role = "afterTrigger" -> 3

Listeners(role) ==
    IF events[CoreName(role)] = 0 THEN <<>>
    ELSE RecordAt(heap, <<CoreName(role), events[CoreName(role)]>>).subscribers

\* C6: a trigger of a non-internal descriptor emits before-trigger first and once
\* and runs its listeners once each, then invokes the descriptor's own
\* subscribers, then emits after-trigger once and runs its listeners once each,
\* and only then hands the context back or re-raises the captured error;
\* after-trigger is emitted also when the chain stopped or ended in an error.
C6_LifecycleOrder ==
    \A i \in UserInvocations :
        LET f == invs[i]
            t == f.trace
        IN ~StoredDefinition(i).internal
           => /\ \A x, y \in 1..Len(t) : x < y => Phase(t[x]) <= Phase(t[y])
              /\ \A role \in {"beforeTrigger", "afterTrigger"} :
                    /\ Cardinality(Emits(i, role)) <= 1
                    /\ \A c \in Calls(i, role) : \E e \in Emits(i, role) : e < c
                    /\ \A c1, c2 \in Calls(i, role) : c1 # c2 => t[c1].who # t[c2].who
              /\ f.pc = "before" <=> Emits(i, "beforeTrigger") = {}
              /\ f.pc \in {"finish", "done"} <=> Emits(i, "afterTrigger") # {}
              /\ Returned(i)
                    => /\ Cardinality(Calls(i, "beforeTrigger")) = Len(Listeners("beforeTrigger"))
                       /\ Cardinality(Calls(i, "afterTrigger")) = Len(Listeners("afterTrigger"))
                       /\ f.outcome # "none"
              /\ ~Returned(i) => f.outcome = "none"

\* A trigger with throwOnError whose subscriber raised: after-trigger was emitted
\* and its listener ran before the error was re-raised.
C6_Witness ==
    \E i \in UserInvocations :
        /\ Returned(i)
        /\ ~StoredDefinition(i).internal
        /\ invs[i].outcome \in {"threw", "rejected"}
        /\ invs[i].trace = <<Emitted("beforeTrigger", Undefined),
                             Invoked("self", "hThrow"),
                             Emitted("subscriberError", "boom"),
                             Emitted("afterTrigger", Undefined),
                             Invoked("afterTrigger", "hNoop")>>

\* ---------------------------------------------------------------- C7
\* C7: on any engine and after any registerEvent/subscribe/removeEvent calls, the
\* trigger that delivers a lifecycle notification emits no lifecycle notification
\* itself, so the engine nests triggers at most one level deep.
C7_LifecycleNeverRetriggers ==
    /\ \A i \in Invocations : invs[i].role \in CoreRoles => ~AnyEmit(i)
    /\ \A i \in Invocations : invs[i].parent # 0 => invs[invs[i].parent].role = "user"

\* On an engine built without the lifecycle descriptors, where the caller's
\* non-internal descriptor holds the before-trigger name: the delivery of
\* before-trigger emits before-trigger.
C7_Witness ==
    \E i \in Invocations :
        /\ invs[i].role = "beforeTrigger"
        /\ StoredDefinition(i) = ShadowBeforeTrigger
        /\ Emits(i, "beforeTrigger") # {}

\* ---------------------------------------------------------------- C8
\* C8: a trigger of an internal descriptor emits no before-trigger, after-trigger
\* or subscriber-error notification, also when a subscriber raised, and the
\* raised error is captured in its context; in particular the delivery of
\* subscriber-error whose listener raised emits no subscriber-error.
C8_InternalEmitsNothing ==
    \A i \in Invocations :
        LET f == invs[i] IN
        StoredDefinition(i).internal
            => /\ ~AnyEmit(i)
               /\ \A j \in Invocations : invs[j].parent # i
               /\ \A k \in 1..Len(f.ran) :
                     (RaisesIn(f.ran[k].handler, StoredDefinition(i).mode) /\ f.ran[k].finished)
                        => /\ f.context.stoppedForError
                           /\ f.context.error = RaisedBy(f.ran[k].handler)
                           /\ k = Len(f.ran)

\* The delivery of subscriber-error whose listener hThrow raised: the error is
\* captured in the delivery's own context, and nothing was emitted for it.
C8_Witness ==
    \E i \in Invocations :
        /\ invs[i].role = "subscriberError"
        /\ StoredDefinition(i).internal
        /\ invs[i].pc = "finish"
        /\ invs[i].context.stoppedForError
        /\ invs[i].context.error = "boom"
        /\ invs[i].trace = <<Invoked("self", "hThrow")>>

\* ---------------------------------------------------------------- C9
\* C9: the result of a fresh context, which the first subscriber sees, is the
\* initialResult option whenever the option is present (also when its value is
\* undefined), otherwise the value of the stored descriptor's factory, otherwise
\* undefined; and the factory is not called when the option is present.
C9_InitialResultPrecedence ==
    \A i \in UserInvocations :
        LET f == invs[i]
            d == StoredDefinition(i)
            present == f.options.given /\ f.options.hasInitialResult
            expected == IF present THEN f.options.initialResult
                        ELSE IF d.hasFactory THEN d.factoryValue
                        ELSE UndefinedResult
        IN /\ f.initial = expected
           /\ f.pc = "before" => f.context.result = expected
           /\ Len(f.ran) > 0 => f.ran[1].seen = expected
           /\ present => f.factoryCalls = 0
           /\ f.factoryCalls = IF ~present /\ d.hasFactory THEN 1 ELSE 0

\* A descriptor with a factory triggered with { initialResult: undefined }: the
\* first subscriber saw undefined, and the factory was not called.
C9_Witness ==
    \E i \in UserInvocations :
        /\ StoredDefinition(i).hasFactory
        /\ invs[i].options.given
        /\ invs[i].options.hasInitialResult
        /\ invs[i].options.initialResult = UndefinedResult
        /\ Len(invs[i].ran) > 0
        /\ invs[i].ran[1].seen = UndefinedResult
        /\ invs[i].factoryCalls = 0

\* ---------------------------------------------------------------- C10
\* C10: a trigger of a descriptor that has no subscriber (registered before or by
\* the trigger itself, sync or async, with or without factory, initialResult or
\* throwOnError) invokes nothing, never raises, and hands back a context with
\* hasSubscribers = stopped = stoppedForError = false and the resolved initial
\* result as its result.
C10_NoSubscribers ==
    \A i \in UserInvocations :
        LET f == invs[i] IN
        f.size = 0
            => /\ f.ran = <<>>
               /\ ~f.context.hasSubscribers
               /\ ~f.context.stopped
               /\ ~f.context.stoppedForError
               /\ f.context.result = f.initial
               /\ ~Raised(i)
               /\ Returned(i) => Handed(i)

\* An async descriptor without subscribers, triggered with throwOnError and
\* initialResult 7: the promise resolved with a context whose result is 7.
C10_Witness ==
    \E i \in UserInvocations :
        /\ Returned(i)
        /\ invs[i].size = 0
        /\ StoredDefinition(i).mode = "async"
        /\ ThrowOnError(i)
        /\ invs[i].outcome = "resolved"
        /\ invs[i].context.result = 7
        /\ ~invs[i].context.hasSubscribers

\* ---------------------------------------------------------------- C11
\* The subscribers of the driver that return a promise.
PromiseHandlers == {"hAsync", "hReject"}

\* C11: in every trigger of a sync-mode descriptor, now and on every later
\* trigger, a subscriber that returned a promise is the last one invoked, the
\* context ends with stoppedForError = true and a TypeError as error, the result
\* is still what that subscriber saw (the promise is not assigned),
\* subscriber-error is emitted once with that TypeError for a non-internal
\* descriptor, and without throwOnError trigger returns the context.
C11_PromiseInSyncModeCaptured ==
    \A i \in UserInvocations :
        LET f == invs[i]
            d == StoredDefinition(i)
        IN \A k \in 1..Len(f.ran) :
            (d.mode = "sync" /\ f.ran[k].handler \in PromiseHandlers /\ f.ran[k].finished)
                => /\ k = Len(f.ran)
                   /\ f.context.stoppedForError
                   /\ f.context.stopped
                   /\ f.context.error = "TypeError"
                   /\ f.context.result # PromiseObject
                   /\ f.context.result = f.ran[k].seen
                   /\ ~d.internal
                        => /\ Cardinality(Emits(i, "subscriberError")) = 1
                           /\ \A e \in Emits(i, "subscriberError") : f.trace[e].arg = "TypeError"
                   /\ (Returned(i) /\ ~ThrowOnError(i)) => f.outcome = "returned"
                   /\ (Returned(i) /\ ThrowOnError(i))
                        => f.outcome = "threw" /\ f.thrown = "TypeError"

\* A returned sync trigger without throwOnError whose chain is <<hAsync, hInc>>:
\* hInc was not invoked and the context carries the TypeError.
C11_Witness ==
    \E i \in UserInvocations :
        /\ Returned(i)
        /\ ~ThrowOnError(i)
        /\ StoredDefinition(i).mode = "sync"
        /\ ~StoredDefinition(i).internal
        /\ Chain(i) = <<"hAsync", "hInc">>
        /\ Len(invs[i].ran) = 1
        /\ invs[i].context.error = "TypeError"
        /\ invs[i].outcome = "returned"

\* ---------------------------------------------------------------- registry observations
\* A step that is a call of the public operation `op`.
CallOf(op) == ret.op = "none" /\ ret'.op = op
\* getEvent(name), hasEvent(name) and the chain of a name, in the current state.
Registered(name) == events[name] # 0
Stored(name) == RecordAt(heap, <<name, events[name]>>).definition
ChainOf(name) == RecordAt(heap, <<name, events[name]>>).subscribers
getSubscriberCount(name) == IF Registered(name) THEN Len(ChainOf(name)) ELSE 0
RegistryUnchanged == events' = events /\ heap' = heap
\* The call started no trigger: it emitted no lifecycle notification.
NothingEmitted == invs' = <<>> /\ stack' = <<>>

\* ---------------------------------------------------------------- C12
\* C12: a registerEvent call with a descriptor whose name is registered with a
\* different mode raises "already registered" (naming the stored mode) and leaves
\* the registry as it was: the stored descriptor, its mode and its subscribers.
C12_ModeConflictRaises ==
    [][CallOf("registerEvent")
         => LET d == ret'.args.event IN
            (Registered(d.name) /\ Stored(d.name).mode # d.mode)
               => /\ ret'.threw = "Event \"" \o d.name \o "\" already registered with mode \""
                                     \o Stored(d.name).mode \o "\"."
                  /\ RegistryUnchanged
                  /\ NothingEmitted]_vars

\* A registerEvent call raised for a name that has subscribers.
C12_Witness ==
    /\ ret.op = "registerEvent"
    /\ ret.threw # "none"
    /\ ret.args.event = conflicting(target)
    /\ Registered(target.name)
    /\ Stored(target.name) = target
    /\ Len(ChainOf(target.name)) = 2

\* ---------------------------------------------------------------- C13
\* C13: a registerEvent call with a descriptor (the stored object or another one)
\* whose name is registered with the same mode raises nothing, returns the stored
\* descriptor, and leaves the registry as it was; so any number of such calls
\* leaves what the first registration stored.
C13_SameModeIdempotent ==
    [][CallOf("registerEvent")
         => LET d == ret'.args.event IN
            /\ (Registered(d.name) /\ Stored(d.name).mode = d.mode)
                  => /\ ret'.threw = "none"
                     /\ ret'.value = Stored(d.name).id
                     /\ RegistryUnchanged
                     /\ NothingEmitted
            /\ ~Registered(d.name)
                  => /\ ret'.threw = "none"
                     /\ ret'.value = d.id
                     /\ events'[d.name] # 0
                     /\ RecordAt(heap', <<d.name, events'[d.name]>>) = EventRecord(d)]_vars

\* A registerEvent call with another object of the same mode returned the
\* descriptor stored first, which has subscribers.
C13_Witness ==
    /\ ret.op = "registerEvent"
    /\ ret.threw = "none"
    /\ ret.args.event = duplicate(target)
    /\ ret.value = target.id
    /\ Stored(target.name) = target
    /\ Len(ChainOf(target.name)) = 2

\* ---------------------------------------------------------------- C14
\* C14: in every reachable state, the mode stored for a registered name is the
\* mode under which that name was first registered on this engine.
C14_NameBoundToFirstMode ==
    \A n \in AllNames : Registered(n) => Stored(n).mode = bound[n]

\* C14, as the code keeps it: the descriptor stored for a name, and so its mode,
\* does not change while the name stays registered; only removeEvent ends the
\* entry, and a later registration of the name starts a new one.
C14_ModeFixedWhileRegistered ==
    [][\A n \in AllNames :
          /\ (Registered(n) /\ events'[n] # 0)
                => RecordAt(heap', <<n, events'[n]>>).definition = Stored(n)
          /\ (Registered(n) /\ events'[n] = 0)
                => ret'.op = "removeEvent" /\ ret'.args.event.name = n]_vars

\* The caller's name was first registered with the caller's descriptor, removed,
\* and registered again with a descriptor of the other mode.
C14_Witness ==
    /\ Registered(target.name)
    /\ Stored(target.name) = conflicting(target)
    /\ bound[target.name] = target.mode
    /\ ret.op = "registerEvent"
    /\ ret.threw = "none"

\* C15: removeEvent on a registered non-internal event, named by descriptor or
\* by string, returns true and deletes the entry with its subscribers (hasEvent
\* false, getSubscriberCount 0, every other entry as it was); on an unknown
\* name it returns false and changes nothing. A later trigger of a removed
\* name starts from a fresh entry with an empty chain.
OthersUnchanged(names) ==
    \A n \in AllNames \ names :
        /\ (events'[n] = 0) = (events[n] = 0)
        /\ events[n] # 0 =>
               RecordAt(heap', <<n, events'[n]>>) = RecordAt(heap, <<n, events[n]>>)
C15_RemoveEventDeletesEntry ==
    [][/\ CallOf("removeEvent") =>
            LET n == ret'.args.event.name IN
            /\ (Registered(n) /\ ~Stored(n).internal) =>
                   /\ ret'.value = "true" /\ ret'.threw = "none"
                   /\ ~hasEvent(Bus(events', heap'), n)
                   /\ events'[n] = 0
                   /\ OthersUnchanged({n})
                   /\ NothingEmitted
            /\ ~Registered(n) =>
                   /\ ret'.value = "false" /\ ret'.threw = "none"
                   /\ RegistryUnchanged
                   /\ NothingEmitted
       /\ (CallOf("trigger") /\ ~Registered(ret'.args.event.name)) =>
            LET n == ret'.args.event.name IN
            /\ events'[n] # 0
            /\ RecordAt(heap', <<n, events'[n]>>).subscribers = <<>>
            /\ \A i \in DOMAIN invs' : invs'[i].role = "user" => invs'[i].size = 0]_vars
C15_Witness ==
    /\ ret.op = "removeEvent" /\ ret.value = "true" /\ ret.had > 0
    /\ ret.args.event = ByName(target.name)
    /\ ~Registered(target.name)
    /\ invs = <<>>

\* C16: removeEvent on a name whose stored descriptor is internal (a lifecycle
\* descriptor or one declared internal) raises the error naming the protected
\* event and leaves the registry as it was, subscribers included; it raises
\* nothing when the name is not registered.
IsDescriptor(event) == "internal" \in DOMAIN event
C16_RegisteredInternalRemovalRaises ==
    [][CallOf("removeEvent") =>
         LET n == ret'.args.event.name IN
         /\ (Registered(n) /\ Stored(n).internal) =>
                /\ ret'.threw = "Core event \"" \o n \o "\" cannot be removed."
                /\ ret'.value = Undefined
                /\ RegistryUnchanged
                /\ NothingEmitted
         /\ ~Registered(n) => ret'.threw = "none" /\ ret'.value = "false"]_vars
\* C16 as stated: removeEvent given an internal descriptor always raises.
C16_InternalRemovalAlwaysRaises ==
    [][CallOf("removeEvent") =>
         LET event == ret'.args.event IN
         (IsDescriptor(event) /\ event.internal) =>
             /\ ret'.threw = "Core event \"" \o event.name \o "\" cannot be removed."
             /\ RegistryUnchanged]_vars
C16_Witness ==
    /\ ret.op = "removeEvent"
    /\ ret.args.event = CORE_EVENTS["subscriberRemoved"]
    /\ ret.threw = CannotBeRemoved(CoreName("subscriberRemoved"))
    /\ ret.had > 0
    /\ getSubscriberCount(CoreName("subscriberRemoved")) = ret.had

\* C17: unsubscribe never raises; given a name that is not registered, or a
\* handler that is not in the chain of the name, it returns false, leaves
\* events and every entry as they were (the name is not registered by the
\* call) and emits no subscriber-removed notification.
Subscribed(name, h) == Registered(name) /\ SetHas(ChainOf(name), h)
C17_UnsubscribeOfAbsentIsInert ==
    [][CallOf("unsubscribe") =>
         /\ ret'.threw = "none"
         /\ ~Subscribed(ret'.args.event.name, ret'.args.handler) =>
                /\ ret'.value = "false"
                /\ RegistryUnchanged
                /\ NothingEmitted]_vars
C17_Witness ==
    /\ ret.op = "unsubscribe" /\ ret.value = "false"
    /\ ret.args.event = target
    /\ ~Registered(target.name)
    /\ Registered(CoreName("subscriberRemoved"))
    /\ getSubscriberCount(CoreName("subscriberRemoved")) > 0

\* C18: subscribing a handler that is already in the chain of the name leaves
\* the entry, its count and its order as they were and emits no
\* subscriber-registered notification; no trigger invokes a handler twice.
InvokedOnce(f) ==
    \A j, k \in DOMAIN f.ran : f.ran[j].handler = f.ran[k].handler => j = k
C18_ResubscribeIsInert ==
    [][/\ (CallOf("subscribe") /\ Subscribed(ret'.args.event.name, ret'.args.handler)) =>
            /\ ret'.threw = "none"
            /\ RegistryUnchanged
            /\ getSubscriberCount(ret'.args.event.name) = ret'.had
            /\ NothingEmitted
       /\ \A i \in DOMAIN invs' : InvokedOnce(invs'[i])]_vars
C18_Witness ==
    /\ ret.op = "subscribe"
    /\ ret.args.event.name = target.name /\ ~Stored(target.name).internal
    /\ ret.had > 0 /\ getSubscriberCount(target.name) = ret.had
    /\ Registered(CoreName("subscriberRegistered"))
    /\ getSubscriberCount(CoreName("subscriberRegistered")) > 0
    /\ invs = <<>>

\* C19: a subscribe that adds a handler to a non-internal name starts, inside
\* the call, exactly one subscriber-registered invocation whose payload is the
\* stored descriptor and the handler; an unsubscribe that removes a handler
\* from a non-internal name starts exactly one subscriber-removed invocation
\* with the same payload; every other subscribe or unsubscribe, those on
\* internal names included, starts none, and no other step starts one.
MutationRoles == {"subscriberRegistered", "subscriberRemoved"}
EmittedOnce(role, definition, h) ==
    /\ Len(invs') = 1 /\ stack' = <<1>>
    /\ invs'[1].role = role /\ invs'[1].parent = 0
    /\ invs'[1].ref[1] = CoreName(role)
    /\ invs'[1].payload = definition.id \o " / " \o h
C19_MutationsEmitOnce ==
    [][/\ CallOf("subscribe") =>
            LET n == ret'.args.event.name
                h == ret'.args.handler
                definition == RecordAt(heap', <<n, events'[n]>>).definition
            IN IF ~definition.internal /\ ~Subscribed(n, h)
               THEN EmittedOnce("subscriberRegistered", definition, h)
               ELSE NothingEmitted
       /\ (CallOf("unsubscribe") \/ CallOf("handle.unsubscribe")) =>
            LET n == ret'.args.event.name
                h == ret'.args.handler
            IN IF Subscribed(n, h) /\ ~Stored(n).internal
               THEN EmittedOnce("subscriberRemoved", Stored(n), h)
               ELSE NothingEmitted
       /\ \A i \in DOMAIN invs' \ DOMAIN invs :
            invs'[i].role \in MutationRoles =>
                ret.op = "none" /\ ret'.op \in {"subscribe", "unsubscribe", "handle.unsubscribe"}]_vars
C19_Witness ==
    /\ ret.op = "subscribe" /\ ret.args.event = duplicate(target)
    /\ Stored(target.name) = target /\ ~target.internal
    /\ Len(invs) = 1
    /\ invs[1].role = "subscriberRegistered"
    /\ invs[1].payload = MutationPayload(target, ret.args.handler)
    /\ Len(invs[1].ran) = 1 /\ invs[1].ran[1].finished

\* C20: the unsubscribe of a kept handle never raises and does what
\* unsubscribe(descriptor, handler) does on the registry as it is now: when the
\* handler is in the chain of the name it is taken out (count one less, the
\* other handlers in their order, every other entry as it was but that of the
\* subscriber-removed event, which the emission may register), and otherwise
\* nothing changes and nothing is emitted.
Without(chain, h) == SelectSeq(chain, LAMBDA x : x # h)
C20_HandleUnsubscribesCurrentPair ==
    [][CallOf("handle.unsubscribe") =>
         LET n == handle.definition.name
             h == handle.handler
         IN /\ ret'.threw = "none"
            /\ ret'.args = Arguments(handle.definition, h)
            /\ IF Subscribed(n, h)
               THEN /\ events'[n] # 0
                    /\ RecordAt(heap', <<n, events'[n]>>).subscribers = Without(ChainOf(n), h)
                    /\ Len(RecordAt(heap', <<n, events'[n]>>).subscribers) = ret'.had - 1
                    /\ OthersUnchanged({n, CoreName("subscriberRemoved")})
               ELSE RegistryUnchanged /\ NothingEmitted]_vars
\* C20 as stated: the first call of the handle's unsubscribe removes its
\* handler from its descriptor, and every further call leaves the count
\* unchanged and emits no subscriber-removed notification.
C20_HandleUnsubscribeIdempotent ==
    [][CallOf("handle.unsubscribe") =>
         /\ ret'.threw = "none"
         /\ handle.used =>
                /\ getSubscriberCount(handle.event) = ret'.had
                /\ events'[handle.event] = events[handle.event]
                /\ events'[handle.event] # 0 =>
                       Len(RecordAt(heap', <<handle.event, events'[handle.event]>>).subscribers) = ret'.had
                /\ NothingEmitted]_vars
C20_Witness ==
    /\ ret.op = "handle.unsubscribe"
    /\ handle.again
    /\ ret.had = getSubscriberCount(handle.event) + 1
    /\ Len(invs) = 1
    /\ invs[1].role = "subscriberRemoved"
    /\ invs[1].payload = MutationPayload(Stored(handle.event), handle.handler)

\* ---------------------------------------------------------------- C21
\* The statement a running subscriber executed last, if any.
SameCall(f, g) == g.handler = f.handler /\ g.it = f.it /\ g.pc = "return" /\ f.pc = "return"
Executed(f, g) == SameCall(f, g) /\ g.at = f.at + 1
\* The engine's catch block ran for the invocation.
Captured(f, g) == f.pc # "exit" /\ g.pc = "exit"

\* C21: in every state of every context a defined error is there only with
\* stoppedForError, and every stopForError call, the engine's capture included,
\* leaves stoppedForError true and the error that call was given.
C21_ErrorOnlyWithStoppedForError ==
    [][\A i \in DOMAIN invs' :
          LET g == invs'[i] IN
          /\ Truthy(g.context.error) => g.context.stoppedForError
          /\ ~g.context.stoppedForError => g.context.error = Undefined
          /\ i \in DOMAIN invs =>
                LET f == invs[i] IN
                /\ (Executed(f, g) /\ Body(g.handler)[g.at].op = "stopForError") =>
                       /\ g.context.stoppedForError
                       /\ g.context.error = Body(g.handler)[g.at].error
                /\ Captured(f, g) =>
                       /\ g.context.stoppedForError
                       /\ g.context.error \in {"boom", "async-fail", TypeErrorValue, Undefined}]_vars
\* C21 as stated: error is set if and only if stoppedForError is true.
C21_ErrorIffStoppedForError ==
    \A i \in DOMAIN invs :
        Truthy(invs[i].context.error) <=> invs[i].context.stoppedForError
\* A subscriber called stopForError(undefined): stoppedForError without an error.
C21_Witness ==
    \E i \in UserInvocations :
        /\ invs[i].handler = "hStopForErrorUndefined"
        /\ invs[i].at = 1
        /\ invs[i].context.stoppedForError
        /\ invs[i].context.error = Undefined

\* ---------------------------------------------------------------- C22
\* C22: in every state of every context stoppedForError implies stopped, and a
\* context that is stopped is stopped in every later state of its invocation,
\* whatever setResult, stop or stopForError calls follow.
C22_StoppedIsStable ==
    [][\A i \in DOMAIN invs' :
          /\ invs'[i].context.stoppedForError => invs'[i].context.stopped
          /\ (i \in DOMAIN invs /\ invs[i].context.stopped) => invs'[i].context.stopped]_vars
\* A subscriber stopped, then assigned and incremented the result: still stopped.
C22_Witness ==
    \E i \in UserInvocations :
        /\ invs[i].handler = "hSetAfterStop"
        /\ invs[i].at = 3
        /\ invs[i].context.stopped
        /\ invs[i].context.result = 4
        /\ invs[i].context.stoppedReason = "first"

\* ---------------------------------------------------------------- C23
\* C23: every stop call, direct or through stopForError or the engine's capture,
\* records its own reason in stoppedReason (undefined when it has none), also on
\* a context that is already stopped.
C23_LastStopRecordsItsReason ==
    [][\A i \in DOMAIN invs \cap DOMAIN invs' :
          LET f == invs[i]
              g == invs'[i]
          IN /\ (Executed(f, g) /\ Body(g.handler)[g.at].op \in {"stop", "stopForError"}) =>
                    g.context.stoppedReason = Body(g.handler)[g.at].reason
             /\ Captured(f, g) => g.context.stoppedReason = STOPPED_BY_ERROR
             /\ (Executed(f, g) /\ Body(g.handler)[g.at].op \in {"setResult", "inc"}) =>
                    g.context.stoppedReason = f.context.stoppedReason]_vars
\* C23 as stated: on a stopped context no later call changes stoppedReason.
C23_FirstStopWins ==
    [][\A i \in DOMAIN invs \cap DOMAIN invs' :
          invs[i].context.stopped =>
              invs'[i].context.stoppedReason = invs[i].context.stoppedReason]_vars
\* A subscriber called stop("first") and raised: the capture replaced the reason.
C23_Witness ==
    \E i \in UserInvocations :
        /\ invs[i].handler = "hStopThenThrow"
        /\ invs[i].at = 1
        /\ invs[i].context.stoppedForError
        /\ invs[i].context.stoppedReason = STOPPED_BY_ERROR

\* ---------------------------------------------------------------- C24
\* The handlers the invocation called, in order, and the registrations it saw
\* made by its own subscribers.
SelfCalls(f, h) == {k \in DOMAIN f.trace : f.trace[k] = Invoked("self", h)}
Readded(f, h, j, k) ==
    \E l \in (j + 1)..(k - 1) :
        /\ f.trace[l].tag = "emit"
        /\ f.trace[l].role = "subscriberRegistered"
        /\ f.trace[l].arg = MutationPayload(target, h)

\* C24: within one trigger a subscriber is invoked a second time only after a
\* subscriber of that trigger subscribed it again (it had been unsubscribed
\* during the chain); a subscriber that is not re-added is invoked once.
C24_InvokedAgainOnlyWhenReadded ==
    \A i \in UserInvocations :
        \A h \in ReentrantHandlers \cup {"hNoop"} :
            \A j, k \in SelfCalls(invs[i], h) : j < k => Readded(invs[i], h, j, k)
\* C24 as stated: within one trigger no subscriber is invoked more than once.
C24_InvokedOncePerTrigger ==
    \A i \in UserInvocations : InvokedOnce(invs[i])
\* A trigger over the chain <<hResubscribe>> that invoked it a third time.
C24_Witness ==
    \E i \in UserInvocations :
        /\ Chain(i) = <<"hResubscribe">>
        /\ Len(invs[i].ran) >= 3
        /\ \A k \in 1..3 : invs[i].ran[k].handler = "hResubscribe"

\* ---------------------------------------------------------------- C25
\* C25: hasSubscribers of a context is whether the entry had a subscriber when
\* trigger created the context, before the before-trigger notification, and
\* never changes afterwards.
C25_HasSubscribersIsSnapshot ==
    [][\A i \in DOMAIN invs' :
          /\ invs'[i].context.hasSubscribers = (invs'[i].size > 0)
          /\ i \in DOMAIN invs =>
                /\ invs'[i].size = invs[i].size
                /\ invs'[i].context.hasSubscribers = invs[i].context.hasSubscribers]_vars
\* C25 as stated: for a completed trigger, hasSubscribers is true if and only
\* if a subscriber of the triggered descriptor was invoked during it.
C25_HasSubscribersIffInvoked ==
    \A i \in UserInvocations :
        Returned(i) => (invs[i].context.hasSubscribers <=> Len(invs[i].ran) > 0)
\* A completed trigger that invoked hNoop, subscribed by a before-trigger
\* listener, and whose context says it had no subscribers.
C25_Witness ==
    \E i \in UserInvocations :
        /\ Returned(i)
        /\ ~invs[i].context.hasSubscribers
        /\ Len(invs[i].ran) = 1
        /\ invs[i].ran[1].handler = "hNoop"

\* ---------------------------------------------------------------- C28
\* A subscriber that unsubscribes and subscribes itself again has been invoked.
Resubscribed == \E i \in DOMAIN invs : \E k \in DOMAIN invs[i].ran : invs[i].ran[k].handler = "hResubscribe"

\* C28: a call in progress completes (a sync trigger returns, the promise of an
\* async one settles) unless its chain invokes a subscriber that unsubscribes
\* itself and subscribes itself again.
C28_TerminatesUnlessResubscribed == ~Quiescent ~> (Quiescent \/ Resubscribed)
\* C28 as stated: every call in progress completes.
C28_EveryTriggerTerminates == ~Quiescent ~> Quiescent
\* A trigger over the chain <<hResubscribe>> in its fourth round.
C28_Witness ==
    \E i \in UserInvocations :
        /\ Chain(i) = <<"hResubscribe">>
        /\ Len(invs[i].ran) >= 4
        /\ invs[i].pc = "return"
        /\ invs[i].at = 2

\* ---------------------------------------------------------------- C26
\* C26: an error a lifecycle listener raises is captured in the listener's own
\* invocation and is never re-raised from it, so subscribe, unsubscribe and
\* trigger raise nothing of it; while a listener's invocation runs, the context
\* of every other invocation is left as it is; and the triggering chain runs
\* its subscribers in order up to the end or to the first that stops it.
C26_ListenerErrorsStayInside ==
    [][/\ ret'.threw = "none"
       /\ \A i \in DOMAIN invs' :
             LET g == invs'[i] IN
             /\ g.role # "user" => ~rethrows(g.options, g.context)
             /\ g.role = "user" =>
                   /\ g.context.error # "listener-boom"
                   /\ g.thrown # "listener-boom"
                   /\ g.pc = "done" =>
                         LET chain == RecordAt(heap', g.ref).subscribers
                             n == Len(g.ran)
                         IN /\ n <= Len(chain)
                            /\ \A k \in 1..n : g.ran[k].handler = chain[k] /\ g.ran[k].finished
                            /\ \A k \in 1..(n - 1) : chain[k] = "hInc"
                            /\ n < Len(chain) => chain[n] \in {"hStop", "hThrow"}
                            /\ g.context.stopped <=> (n > 0 /\ chain[n] \in {"hStop", "hThrow"})
       /\ \A i \in DOMAIN invs \cap DOMAIN invs' :
             (stack # <<>> /\ Top # i /\ invs[Top].role # "user") =>
                 invs'[i].context = invs[i].context]_vars
\* A completed trigger whose before-trigger listener raised: its one
\* subscriber ran afterwards and the context carries no error.
C26_Witness ==
    \E i \in UserInvocations :
        /\ Returned(i)
        /\ \E j, k \in DOMAIN invs[i].trace :
              /\ j < k
              /\ invs[i].trace[j] = Invoked("beforeTrigger", "hListenerThrow")
              /\ invs[i].trace[k] = Invoked("self", "hInc")
        /\ invs[i].context.result = 1
        /\ ~invs[i].context.stopped
        /\ invs[i].context.error = Undefined
        /\ invs[i].outcome \in {"returned", "resolved"}

\* ---------------------------------------------------------------- C27
\* C27: of the triggers of an async descriptor in progress at the same time,
\* each keeps a context of its own: a step changes the context of the one
\* invocation that is running, or of the one whose promise settles or whose
\* await resumes, and of no other; every subscriber of a trigger saw the result
\* the previous subscriber of the same trigger left (the first: the trigger's
\* own initial result); and the trigger resolves with the result, the stop and
\* the captured error of its own chain.
C27_ContextsAreSeparate ==
    [][/\ \A i \in DOMAIN invs \cap DOMAIN invs' :
             invs'[i].context # invs[i].context =>
                 \/ stack # <<>> /\ Top = i
                 \/ /\ stack = <<>>
                    /\ \E p \in promises :
                          /\ p.inv = i
                          /\ \/ ~p.settled /\ [p EXCEPT !.settled = TRUE] \in promises'
                             \/ p.settled /\ p \notin promises'
       /\ \A i \in DOMAIN invs' :
             LET f == invs'[i]
                 n == Len(f.ran)
                 last == IF n = 0 THEN "" ELSE f.ran[n].handler
             IN (f.role = "user" /\ DefinitionOf(heap', f).mode = "async") =>
                   /\ n > 0 => f.ran[1].seen = f.initial
                   /\ \A k \in 1..(n - 1) : f.ran[k + 1].seen = f.ran[k].left
                   /\ \A k \in 1..n :
                         (f.ran[k].finished /\ f.ran[k].handler \in {"hInc", "hAsync"})
                             => f.ran[k].left = Leaves(f.ran[k].handler, f.ran[k].seen)
                   /\ f.pc = "done" =>
                         /\ f.context.result = IF n = 0 THEN f.initial ELSE f.ran[n].left
                         /\ f.context.stopped <=> last \in {"hStop", "hReject"}
                         /\ f.context.stoppedForError <=> last = "hReject"
                         /\ f.context.error = IF last = "hReject" THEN "async-fail" ELSE Undefined
                         /\ f.outcome = "resolved"]_vars
\* Two triggers of <<hAsync, hInc>>, the second started while the first was
\* suspended, the first with the initial result 7: they resolved with 9 and 2.
C27_Witness ==
    /\ Len(invs) = 2
    /\ \A i \in {1, 2} :
          /\ invs[i].role = "user"
          /\ invs[i].pc = "done"
          /\ Len(invs[i].ran) = 2
          /\ invs[i].ran[1].handler = "hAsync"
          /\ invs[i].ran[2].handler = "hInc"
    /\ invs[1].initial = 7
    /\ invs[1].context.result = 9
    /\ invs[2].initial = UndefinedResult
    /\ invs[2].context.result = 1 + 1

\* ---------------------------------------------------------------- C29
\* C29: subscribe and trigger called with a descriptor whose name is unknown
\* store that descriptor under its name (hasEvent is true afterwards and
\* getEvent returns the descriptor passed, with its mode), trigger also when
\* the chain is empty; a name stays registered with the descriptor it has when
\* a subscriber of it is unsubscribed, the last one included; and only
\* removeEvent takes a name out of the registry.
C29_UnknownDescriptorIsRegistered ==
    [][/\ ((CallOf("subscribe") \/ CallOf("trigger")) /\ ~Registered(ret'.args.event.name)) =>
            LET d == ret'.args.event IN
            /\ ret'.threw = "none"
            /\ hasEvent(Bus(events', heap'), d.name)
            /\ RecordAt(heap', <<d.name, events'[d.name]>>).definition = d
            /\ ret'.op = "trigger" =>
                  RecordAt(heap', <<d.name, events'[d.name]>>).subscribers = <<>>
            /\ ret'.op = "subscribe" =>
                  RecordAt(heap', <<d.name, events'[d.name]>>).subscribers = <<ret'.args.handler>>
       /\ \A n \in AllNames :
             Registered(n) =>
                 \/ /\ hasEvent(Bus(events', heap'), n)
                    /\ RecordAt(heap', <<n, events'[n]>>).definition = Stored(n)
                 \/ CallOf("removeEvent") /\ ret'.args.event.name = n]_vars
\* The descriptor a subscribe call registered is still the registered one after
\* its only subscriber was unsubscribed.
C29_Witness ==
    /\ ret.op = "unsubscribe" /\ ret.value = "true" /\ ret.had = 1
    /\ ret.args.event.name = target.name
    /\ Registered(target.name)
    /\ ChainOf(target.name) = <<>>
    /\ Stored(target.name) = duplicate(target)
    /\ bound[target.name] = target.mode

\* ---------------------------------------------------------------- C30
\* C30: one trigger emits subscriber-error at most once, and only for a
\* non-internal descriptor whose last invoked subscriber raised, returned a
\* promise that rejected, or returned a promise in sync mode; a subscriber that
\* calls stopForError and returns is the last one invoked and leaves
\* stoppedForError = stopped = true with its error, and subscriber-error is not
\* emitted for that trigger.
C30_SubscriberErrorOnlyOnCapture ==
    \A i \in Invocations :
        LET f == invs[i]
            d == StoredDefinition(i)
            n == Len(f.ran)
        IN /\ Cardinality(Emits(i, "subscriberError")) <= 1
           /\ Emits(i, "subscriberError") # {} =>
                 /\ ~d.internal
                 /\ n > 0
                 /\ f.ran[n].finished
                 /\ \/ RaisesIn(f.ran[n].handler, d.mode)
                    \/ d.mode = "sync" /\ f.ran[n].handler \in PromiseHandlers
                 /\ f.context.stoppedForError
           /\ \A k \in 1..n :
                 (f.ran[k].handler = "hStopForError" /\ f.ran[k].finished) =>
                     /\ k = n
                     /\ f.context.stopped
                     /\ f.context.stoppedForError
                     /\ f.context.error = "manual"
                     /\ Emits(i, "subscriberError") = {}
\* A returned trigger of a non-internal descriptor over <<hStopForError, hInc>>
\* on an engine with core events: hInc was not invoked, the context is stopped
\* for the error, and only before-trigger and after-trigger were emitted.
C30_Witness ==
    \E i \in UserInvocations :
        /\ Returned(i)
        /\ ~StoredDefinition(i).internal
        /\ Chain(i) = <<"hStopForError", "hInc">>
        /\ Len(invs[i].ran) = 1
        /\ invs[i].context.stoppedForError
        /\ Cardinality(Emits(i, "afterTrigger")) = 1
        /\ Emits(i, "subscriberError") = {}

\* ---------------------------------------------------------------- C33
\* C33: an engine built with includeCoreEvents = false has no entry at first. A
\* subscribe call that added a handler to a non-internal descriptor leaves the
\* built-in subscriber-registered descriptor registered, an unsubscribe call
\* that removed one leaves subscriber-removed registered, and a trigger of a
\* non-internal descriptor has before-trigger registered once its chain runs
\* and after-trigger once it returns, whether or not the caller registered
\* them; an unsubscribe call that removed nothing changes no entry; and a
\* registered lifecycle descriptor stays registered: removeEvent on it raises.
C33_LifecycleRegisteredOnEmission ==
    [][/\ \A n \in AllNames : ~hasEvent(NewEventBus(FALSE), n)
       /\ CallOf("subscribe") =>
             LET n == ret'.args.event.name
                 stored == RecordAt(heap', <<n, events'[n]>>).definition
             IN (~stored.internal /\ ~Subscribed(n, ret'.args.handler)) =>
                   /\ events'[CoreName("subscriberRegistered")] # 0
                   /\ RecordAt(heap', <<CoreName("subscriberRegistered"),
                                        events'[CoreName("subscriberRegistered")]>>).definition
                         = CORE_EVENTS["subscriberRegistered"]
       /\ CallOf("unsubscribe") =>
             IF ret'.value = "true"
             THEN ~Stored(ret'.args.event.name).internal =>
                     /\ events'[CoreName("subscriberRemoved")] # 0
                     /\ RecordAt(heap', <<CoreName("subscriberRemoved"),
                                          events'[CoreName("subscriberRemoved")]>>).definition
                           = CORE_EVENTS["subscriberRemoved"]
             ELSE RegistryUnchanged
       /\ \A i \in DOMAIN invs' :
             (invs'[i].role = "user" /\ ~DefinitionOf(heap', invs'[i]).internal) =>
                 /\ invs'[i].pc # "before" => events'[CoreName("beforeTrigger")] # 0
                 /\ invs'[i].pc \in {"finish", "done"} => events'[CoreName("afterTrigger")] # 0
       /\ \A n \in CoreNames :
             Registered(n) =>
                 /\ events'[n] # 0
                 /\ RecordAt(heap', <<n, events'[n]>>).definition = Stored(n)
                 /\ (CallOf("removeEvent") /\ ret'.args.event.name = n)
                        => ret'.threw = CannotBeRemoved(n)]_vars
\* The statement without the condition on unsubscribe: every unsubscribe call on
\* a non-internal descriptor leaves subscriber-removed registered.
C33_EveryUnsubscribeRegisters ==
    [][(CallOf("unsubscribe") /\ ~ret'.args.event.internal)
          => events'[CoreName("subscriberRemoved")] # 0]_vars
\* On an engine that never had before-trigger registered, removeEvent of the
\* subscriber-removed descriptor an unsubscribe call registered raised.
C33_Witness ==
    /\ ret.op = "removeEvent"
    /\ ret.args.event = CORE_EVENTS["subscriberRemoved"]
    /\ ret.threw = CannotBeRemoved(CoreName("subscriberRemoved"))
    /\ ~Registered(CoreName("beforeTrigger"))
    /\ Registered(CoreName("subscriberRegistered"))
    /\ Stored(CoreName("subscriberRemoved")) = CORE_EVENTS["subscriberRemoved"]
    /\ bound[CoreName("subscriberRegistered")] = "sync"

\* ---------------------------------------------------------------- C32
\* C32: subscribe and trigger called with a descriptor whose name is registered
\* raise nothing and leave the stored descriptor in place, whatever the mode
\* and the other fields of the descriptor passed. subscribe emits
\* subscriber-registered when the stored descriptor is not internal. The
\* context of the trigger names the stored descriptor, its initial result is
\* resolved with the stored factory, the lifecycle notifications are emitted
\* when the stored descriptor is not internal, and the call returns (stored
\* mode sync) or resolves (stored mode async).
C32_StoredDescriptorDecides ==
    [][/\ ((CallOf("subscribe") \/ CallOf("trigger")) /\ Registered(ret'.args.event.name)) =>
            LET n == ret'.args.event.name IN
            /\ ret'.threw = "none"
            /\ events'[n] = events[n]
            /\ RecordAt(heap', <<n, events'[n]>>).definition = Stored(n)
            /\ ret'.op = "subscribe" =>
                  /\ RecordAt(heap', <<n, events'[n]>>).subscribers
                        = SetAdd(ChainOf(n), ret'.args.handler)
                  /\ (invs' # <<>>)
                        <=> (~Stored(n).internal /\ ~Subscribed(n, ret'.args.handler))
            /\ ret'.op = "trigger" =>
                  /\ Len(invs') = 1
                  /\ invs'[1].ref = <<n, events[n]>>
                  /\ invs'[1].context.event = Stored(n).id
                  /\ invs'[1].initial
                        = resolveInitialResult(Stored(n), invs'[1].options).value
                  /\ invs'[1].context.result = invs'[1].initial
                  /\ invs'[1].pc = IF Stored(n).internal THEN "run" ELSE "before"
       /\ \A i \in DOMAIN invs' :
             LET f == invs'[i]
                 d == DefinitionOf(heap', f)
             IN (f.role = "user" /\ f.pc = "done") =>
                   /\ f.context.event = d.id
                   /\ f.outcome = IF d.mode = "sync" THEN "returned" ELSE "resolved"
                   /\ (\E k \in DOMAIN f.trace : f.trace[k] = Emitted("beforeTrigger", Undefined))
                         <=> ~d.internal
                   /\ (\E k \in DOMAIN f.trace : f.trace[k] = Emitted("afterTrigger", Undefined))
                         <=> ~d.internal]_vars
\* A trigger called with the async, internal, factory-less sibling of the
\* stored EventWithFactory: it returned synchronously, started from the
\* factory's 5, emitted before-trigger, and its context names EventWithFactory.
C32_Witness ==
    /\ ret.op = "trigger"
    /\ ret.args.event = unlike(EventWithFactory)
    /\ Registered(target.name)
    /\ Stored(target.name) = EventWithFactory
    /\ Len(invs) = 1
    /\ invs[1].pc = "done"
    /\ invs[1].outcome = "returned"
    /\ invs[1].initial = 5
    /\ invs[1].context.event = "EventWithFactory"
    /\ invs[1].context.result = 5 + 1
    /\ \E k \in DOMAIN invs[1].trace : invs[1].trace[k].tag = "emit"

\* ---------------------------------------------------------------- C31
\* C31: a chain iterates the Set of the entry it was started on, as that Set is
\* at each step. A subscriber is invoked only if it is in that Set when its
\* turn comes (one unsubscribed before its turn is not invoked), and when the
\* loop ends without a stop, every subscriber then in that Set has been
\* invoked in this trigger: the ones added while the chain ran, by a subscriber
\* or by other code during an await, included, and also when removeEvent has
\* taken the entry out of the registry meanwhile.
C31_ChainIteratesLiveSet ==
    [][\A i \in DOMAIN invs \cap DOMAIN invs' :
          LET f == invs[i]
              g == invs'[i]
              subs == RecordAt(heap, f.ref).subscribers
          IN /\ Len(g.ran) > Len(f.ran) =>
                   /\ f.it < Len(subs)
                   /\ g.ran[Len(g.ran)].handler = subs[f.it + 1]
             /\ (f.pc = "run" /\ g.pc \in {"after", "then", "finish"} /\ ~f.context.stopped) =>
                   \A k \in DOMAIN subs : \E j \in DOMAIN f.ran : f.ran[j].handler = subs[k]]_vars
\* The statement by name: when the loop ends without a stop, every subscriber
\* the registry then holds for the name of the descriptor has been invoked.
C31_SubscribedToNameIsInvoked ==
    [][\A i \in DOMAIN invs \cap DOMAIN invs' :
          LET f == invs[i]
              g == invs'[i]
              n == f.ref[1]
          IN (/\ f.role = "user"
              /\ f.pc = "run"
              /\ g.pc \in {"after", "then", "finish"}
              /\ ~f.context.stopped
              /\ Registered(n)) =>
                 \A k \in DOMAIN ChainOf(n) : \E j \in DOMAIN f.ran : f.ran[j].handler = ChainOf(n)[k]]_vars
\* A completed trigger started on the chain <<hSubscribeNoop>>: hNoop, which
\* hSubscribeNoop subscribed, was invoked after it in the same trigger.
C31_Witness ==
    \E i \in UserInvocations :
        /\ Returned(i)
        /\ invs[i].size = 1
        /\ Len(invs[i].ran) = 2
        /\ invs[i].ran[1].handler = "hSubscribeNoop"
        /\ invs[i].ran[2].handler = "hNoop"
        /\ invs[i].ran[2].finished
        /\ Chain(i) = <<"hSubscribeNoop", "hNoop">>

====
